---- MODULE Spec2Model ----
(***************************************************************************)
(* Air quality monitor firmware (RP2350, embassy): the health supervisor   *)
(* of src/src/watchdog.rs, the tasks that report to it (sensor.rs,         *)
(* vsys.rs, orchestrate.rs, display.rs) and the event orchestration        *)
(* (event.rs, orchestrate.rs, system_state.rs).                            *)
(*                                                                         *)
(* Time is the embassy Instant in seconds, observed on a grid of TimeStep  *)
(* seconds.  A timer wakes its task at the first grid instant at or after  *)
(* its deadline, and everything a task does between two suspension points  *)
(* takes no time.  The clock does not pass a task that is ready to run.    *)
(***************************************************************************)
EXTENDS Integers, Sequences, FiniteSets, TLC

VARIABLES
    now,              \* Instant::now(), seconds since boot
    health,           \* SYSTEM_HEALTH: SystemHealth
    wd_pc,            \* watchdog_task: "sleep" (Timer::after) | "reset_wait" (inner loop)
    wd_wake,          \* instant at which the watchdog_task timer expires
    hw_watchdog,      \* the RP2350 hardware watchdog: "off" | "started"
    event_channel,    \* EVENT_CHANNEL: events sent and not yet received
    display_channel,  \* DISPLAY_CHANNEL: commands sent and not yet received
    system_state,     \* SYSTEM_STATE: SystemState
    sensor_pc,        \* sensor_task: "init" | "returned" | "warmup" | "wait_int" | "hung" | "send" | "sleep"
    sensor_wake,      \* instant at which the sensor_task timer expires
    sensor_i,         \* read_ens160: index i of the reading awaited
    aht_ok,           \* handle_sensor_iteration: aht21_result is Ok
    cycle,            \* history: the current acquisition cycle (an operation failed, events sent, reports made)
    vsys_pc,          \* vsys_voltage_task: "sleep" | "send"
    vsys_wake,        \* instant at which the vsys_voltage_task timer expires
    vsys_reading,     \* vsys_voltage_task: (is_charging, battery_percentage, event) while sending
    prev_charging_state,      \* vsys_voltage_task local
    prev_battery_percentage,  \* vsys_voltage_task local
    ms_wake,          \* instant at which the mode_switch_task timer expires
    orch_pc,          \* orchestrate_task: "recv" | "send"
    orch_event,       \* process_event: the event in hand
    orch_cmd,         \* process_event: the command being sent
    display_pc,       \* display_task: "init" | "returned" | "wait" | "flush"
    display_cmd,      \* display_task: the command in hand
    unhealthy_since,  \* history: instant at which the flags last stopped being all healthy (boot = 0)
    sensor_reported_at, \* history: instant of the last report made for TaskId::Sensor (boot = 0)
    reported,         \* history: has task t reported in its current loop iteration
    io_failed,        \* history: has any sensor, ADC or display operation failed
    produced,         \* history: the events accepted from the free producers, in order of acceptance
    ens160_call,      \* read_ens160: its locals co2_median, etoh_median, co2_aqi_pairs
    ens160_readings,  \* read_ens160: the Ens160Readings last returned
    humidity_calibrator, \* the HumidityCalibrator
    calibrated,       \* calibrate_humidity: the raw value last passed and the value returned for it
    fed,              \* history: the samples passed to add_measurement so far
    sensor_task,      \* sensor_task in detail: its position and the locals of its loop
    io_log,           \* history: the operations of the current sensor cycle, in order
    last_report,      \* history: the task and the kind of the last report noted
    expected_call,    \* expected_indoor_humidity: two temperatures passed and the values returned
    running,          \* the executor: the task being polled, or "idle"
    lock_pc,          \* the position of each task, statement by statement
    sensor_run,       \* sensor_task statement by statement: the operation it is at, and is the cycle still a success
    display_run,      \* display_task statement by statement: its I2C operation, its SYSTEM_STATE section, its locals
    i2c_bus_owner,    \* I2C_BUS: the task holding the bus mutex, or "free"
    system_state_owner,  \* SYSTEM_STATE: the task holding the mutex, or "free"
    system_health_owner, \* SYSTEM_HEALTH: the task holding the mutex, or "free"
    drawn             \* history: the command last drawn and what its sections read from SYSTEM_STATE

healthVars == <<health, wd_pc, wd_wake, hw_watchdog, unhealthy_since>>
ghostVars == <<sensor_reported_at, reported, io_failed>>
channelVars == <<event_channel, display_channel>>
sensorVars == <<sensor_pc, sensor_wake, sensor_i, aht_ok, cycle>>
vsysVars == <<vsys_pc, vsys_wake, vsys_reading, prev_charging_state, prev_battery_percentage>>
orchVars == <<orch_pc, orch_event, orch_cmd>>
displayVars == <<display_pc, display_cmd>>
ensVars == <<ens160_call, ens160_readings>>
calibVars == <<humidity_calibrator, calibrated, fed>>
iterVars == <<sensor_task, io_log>>
lockVars == <<running, lock_pc, sensor_run, display_run, i2c_bus_owner, system_state_owner,
              system_health_owner, drawn>>
extraVars == <<last_report, expected_call, lockVars>>
auxVars == <<produced, ensVars, calibVars, iterVars, extraVars>>
taskVars == <<channelVars, system_state, sensorVars, vsysVars, ms_wake, orchVars, displayVars, auxVars>>
vars == <<now, healthVars, ghostVars, taskVars>>

(***************************************************************************)
(* Bounds of the model.                                                    *)
(***************************************************************************)
TimeStep == 60
MaxTime == 1260

(***************************************************************************)
(* Program constants.                                                      *)
(***************************************************************************)
COUNTDOWN_TIMEOUT == 900
HEALTH_CHECK_INTERVAL == 180

TaskId == {"Sensor", "Display", "Vsys", "Orchestrator", "ModeSwitch"}

\* Option<T>: None is the empty sequence, Some(x) the one-element sequence
None == << >>
Some(x) == <<x>>
IsSome(o) == o # None
Unwrap(o) == o[1]

(***************************************************************************)
(* SystemHealth (watchdog.rs).  Operators take the record and the value of *)
(* Instant::now() and return the record after the call.                    *)
(***************************************************************************)
SystemHealth_new ==
    [tasks |-> [t \in TaskId |-> FALSE],
     all_healthy |-> FALSE,
     countdown_deadline |-> None]

\* mutation: the countdown is re-armed whenever a task is unhealthy
update_overall_health_rearm(h, n) ==
    LET was_all_healthy == h.all_healthy
        all == \A t \in TaskId : h.tasks[t]
        h1 == [h EXCEPT !.all_healthy = all]
    IN  IF all /\ ~was_all_healthy
        THEN [h1 EXCEPT !.countdown_deadline = Some(n + COUNTDOWN_TIMEOUT)]
        ELSE IF ~all
        THEN [h1 EXCEPT !.countdown_deadline = Some(n + COUNTDOWN_TIMEOUT)]
        ELSE h1

\* mutation: becoming all healthy again does not re-arm the countdown
update_overall_health_noflip(h, n) ==
    LET all == \A t \in TaskId : h.tasks[t]
        h1 == [h EXCEPT !.all_healthy = all]
    IN  IF h1.countdown_deadline = None
        THEN [h1 EXCEPT !.countdown_deadline = Some(n + COUNTDOWN_TIMEOUT)]
        ELSE h1

update_overall_health(h, n) ==
    LET was_all_healthy == h.all_healthy
        all == \A t \in TaskId : h.tasks[t]
        h1 == [h EXCEPT !.all_healthy = all]
    IN  IF all /\ ~was_all_healthy
        THEN [h1 EXCEPT !.countdown_deadline = Some(n + COUNTDOWN_TIMEOUT)]
        ELSE IF ~all /\ h1.countdown_deadline = None
        THEN [h1 EXCEPT !.countdown_deadline = Some(n + COUNTDOWN_TIMEOUT)]
        ELSE h1

\* mutation: the flag is flipped instead of set
set_task_succeeded_toggle(h, task_id, n) ==
    update_overall_health([h EXCEPT !.tasks[task_id] = ~h.tasks[task_id]], n)

set_task_succeeded(h, task_id, n) ==
    update_overall_health([h EXCEPT !.tasks[task_id] = TRUE], n)

\* mutation: a failure report marks every task unhealthy
set_task_failed_clears_all(h, task_id, n) ==
    update_overall_health([h EXCEPT !.tasks = [t \in TaskId |-> FALSE]], n)

set_task_failed(h, task_id, n) ==
    update_overall_health([h EXCEPT !.tasks[task_id] = FALSE], n)

\* mutation: feeding does nothing
reset_countdown_noop(h, n) == h

reset_countdown(h, n) ==
    IF h.all_healthy
    THEN [h EXCEPT !.countdown_deadline = Some(n + COUNTDOWN_TIMEOUT)]
    ELSE h

\* mutation: an armed countdown counts as expired
should_trigger_reset_armed(h, n) ==
    IsSome(h.countdown_deadline)

should_trigger_reset(h, n) ==
    IsSome(h.countdown_deadline) /\ n >= Unwrap(h.countdown_deadline)

\* mutation: the tick does not feed the countdown
health_check_without_feed(h, n) ==
    LET h1 == update_overall_health(h, n)
    IN  IF h1.all_healthy THEN h1 ELSE h1

\* the critical section of one watchdog_task iteration (watchdog.rs 159-169)
health_check(h, n) ==
    LET h1 == update_overall_health(h, n)
    IN  IF h1.all_healthy THEN reset_countdown(h1, n) ELSE h1

\* history: the instant the flags stopped being all healthy
StoppedHealthy(h_old, h_new) ==
    IF h_old.all_healthy /\ ~h_new.all_healthy THEN now ELSE unhealthy_since

(***************************************************************************)
(* report_task_success / report_task_failure: lock SYSTEM_HEALTH, update.  *)
(***************************************************************************)
report_task_success(task_id) ==
    /\ health' = set_task_succeeded(health, task_id, now)
    /\ unhealthy_since' = StoppedHealthy(health, health')

report_task_failure(task_id) ==
    /\ health' = set_task_failed(health, task_id, now)
    /\ unhealthy_since' = StoppedHealthy(health, health')

(***************************************************************************)
(* watchdog_task: one iteration of the loop.                               *)
(***************************************************************************)
WatchdogDue == wd_pc = "sleep" /\ now >= wd_wake

\* mutation: after starting the hardware watchdog the task goes on with the next health check
WatchdogTick_keeps_checking ==
    /\ WatchdogDue
    /\ health' = health_check(health, now)
    /\ unhealthy_since' = StoppedHealthy(health, health')
    /\ IF should_trigger_reset(health', now)
       THEN /\ hw_watchdog' = "started"
            /\ wd_pc' = "sleep"
            /\ wd_wake' = now + HEALTH_CHECK_INTERVAL
       ELSE /\ hw_watchdog' = hw_watchdog
            /\ wd_pc' = "sleep"
            /\ wd_wake' = now + HEALTH_CHECK_INTERVAL
    /\ UNCHANGED <<now, ghostVars, taskVars>>

WatchdogTick ==
    /\ WatchdogDue
    /\ health' = health_check(health, now)
    /\ unhealthy_since' = StoppedHealthy(health, health')
    /\ IF should_trigger_reset(health', now)
       THEN /\ hw_watchdog' = "started"
            /\ wd_pc' = "reset_wait"
            /\ wd_wake' = wd_wake
       ELSE /\ hw_watchdog' = hw_watchdog
            /\ wd_pc' = "sleep"
            /\ wd_wake' = now + HEALTH_CHECK_INTERVAL
    /\ UNCHANGED <<now, ghostVars, taskVars>>

(***************************************************************************)
(* The clock.  Once the hardware watchdog is started the chip resets after *)
(* HARDWARE_WATCHDOG_TIMEOUT (8 s), before the next grid instant.          *)
(***************************************************************************)
TimePasses ==
    /\ hw_watchdog = "off"
    /\ now + TimeStep <= MaxTime
    /\ now' = now + TimeStep

(***************************************************************************)
(* The health supervisor with arbitrary callers: any task context may      *)
(* report success or failure at any instant.                               *)
(***************************************************************************)
CallReportSuccess ==
    \E t \in TaskId :
        /\ report_task_success(t)
        /\ sensor_reported_at' = IF t = "Sensor" THEN now ELSE sensor_reported_at
        /\ UNCHANGED <<now, wd_pc, wd_wake, hw_watchdog, reported, io_failed, taskVars>>

CallReportFailure ==
    \E t \in TaskId :
        /\ report_task_failure(t)
        /\ sensor_reported_at' = IF t = "Sensor" THEN now ELSE sensor_reported_at
        /\ UNCHANGED <<now, wd_pc, wd_wake, hw_watchdog, reported, io_failed, taskVars>>

HealthAdvance ==
    /\ ~WatchdogDue
    /\ TimePasses
    /\ UNCHANGED <<healthVars, ghostVars, taskVars>>

(***************************************************************************)
(* Program constants of the tasks.                                         *)
(***************************************************************************)
WARMUP_TIME == 180
READ_INTERVAL == 300
ENS160_MEDIAN_READINGS == 3
INTERVAL == 4
TOGGLE_MODE == 10
EVENT_CHANNEL_CAPACITY == 10
DISPLAY_CHANNEL_CAPACITY == 3
CO2_HISTORY_CAPACITY == 10

\* values the environment can produce
CO2Values == {450, 900}
Percentages == {20}

(***************************************************************************)
(* Event (event.rs) and DisplayCommand (display.rs).                       *)
(***************************************************************************)
SensorDataEvent(c) == [type |-> "SensorData", co2 |-> c]
BatteryChargingEvent == [type |-> "BatteryCharging"]
BatteryLevelEvent(p) == [type |-> "BatteryLevel", level |-> p]
ToggleDisplayModeEvent == [type |-> "ToggleDisplayMode"]

SensorDataCommand(c) == [type |-> "SensorData", co2 |-> c]
UpdateBatteryChargingCommand == [type |-> "UpdateBatteryCharging"]
UpdateBatteryPercentageCommand(p) == [type |-> "UpdateBatteryPercentage", level |-> p]
ToggleModeCommand == [type |-> "ToggleMode"]

EventChannelHasRoom == Len(event_channel) < EVENT_CHANNEL_CAPACITY
DisplayChannelHasRoom == Len(display_channel) < DISPLAY_CHANNEL_CAPACITY

(***************************************************************************)
(* SystemState (system_state.rs).                                          *)
(***************************************************************************)
SystemState_new ==
    [battery_percent |-> 100,
     is_charging |-> FALSE,
     last_sensor_data |-> None,
     co2_history |-> << >>,
     display_mode |-> "RawData"]

set_last_sensor_data(st, data) == [st EXCEPT !.last_sensor_data = Some(data)]

set_battery_percent(st, percent) == [st EXCEPT !.battery_percent = percent]

set_charging(st, is_charging) == [st EXCEPT !.is_charging = is_charging]

\* mutation: a full history is left as it is and the new value is dropped
add_co2_measurement_drops_new(st, co2) ==
    IF Len(st.co2_history) >= CO2_HISTORY_CAPACITY
    THEN st
    ELSE [st EXCEPT !.co2_history = Append(st.co2_history, co2)]

add_co2_measurement(st, co2) ==
    LET kept == IF Len(st.co2_history) >= CO2_HISTORY_CAPACITY
                THEN Tail(st.co2_history)
                ELSE st.co2_history
    IN  [st EXCEPT !.co2_history = Append(kept, co2)]

\* mutation: the mode is set to Co2History instead of flipped
toggle_display_mode_set(st) == [st EXCEPT !.display_mode = "Co2History"]

toggle_display_mode(st) ==
    [st EXCEPT !.display_mode =
        IF st.display_mode = "RawData" THEN "Co2History" ELSE "RawData"]

(***************************************************************************)
(* process_event (orchestrate.rs): the SYSTEM_STATE critical section and   *)
(* the command sent after it.                                              *)
(***************************************************************************)
\* mutation: a battery level leaves the charging state as it is
process_event_state_keeps_charging(st, event) ==
    CASE event.type = "SensorData" ->
            set_last_sensor_data(add_co2_measurement(st, event.co2), [co2 |-> event.co2])
      [] event.type = "BatteryCharging" -> set_charging(st, TRUE)
      [] event.type = "BatteryLevel" ->
            set_battery_percent(st, event.level)
      [] event.type = "ToggleDisplayMode" ->
            IF IsSome(st.last_sensor_data) THEN toggle_display_mode(st) ELSE st

process_event_state(st, event) ==
    CASE event.type = "SensorData" ->
            set_last_sensor_data(add_co2_measurement(st, event.co2), [co2 |-> event.co2])
      [] event.type = "BatteryCharging" -> set_charging(st, TRUE)
      [] event.type = "BatteryLevel" ->
            set_battery_percent(set_charging(st, FALSE), event.level)
      [] event.type = "ToggleDisplayMode" ->
            IF IsSome(st.last_sensor_data) THEN toggle_display_mode(st) ELSE st

\* mutation: a mode toggle is forwarded whether or not sensor data exists
process_event_command_always(st, event) ==
    CASE event.type = "SensorData" -> Some(SensorDataCommand(event.co2))
      [] event.type = "BatteryCharging" -> Some(UpdateBatteryChargingCommand)
      [] event.type = "BatteryLevel" -> Some(UpdateBatteryPercentageCommand(event.level))
      [] event.type = "ToggleDisplayMode" -> Some(ToggleModeCommand)

process_event_command(st, event) ==
    CASE event.type = "SensorData" -> Some(SensorDataCommand(event.co2))
      [] event.type = "BatteryCharging" -> Some(UpdateBatteryChargingCommand)
      [] event.type = "BatteryLevel" -> Some(UpdateBatteryPercentageCommand(event.level))
      [] event.type = "ToggleDisplayMode" ->
            IF IsSome(st.last_sensor_data) THEN Some(ToggleModeCommand) ELSE None

(***************************************************************************)
(* A report made by a task of the program.                                 *)
(***************************************************************************)
Report(task_id, success) ==
    /\ IF success THEN report_task_success(task_id) ELSE report_task_failure(task_id)
    /\ sensor_reported_at' = IF task_id = "Sensor" THEN now ELSE sensor_reported_at
    /\ reported' = [reported EXCEPT ![task_id] = TRUE]

NoReport(task_id) ==
    /\ reported' = [reported EXCEPT ![task_id] = FALSE]
    /\ UNCHANGED <<health, unhealthy_since, sensor_reported_at>>

watchdogVars == <<wd_pc, wd_wake, hw_watchdog>>

(***************************************************************************)
(* sensor_task (sensor.rs).                                                *)
(***************************************************************************)
\* mutation: a failed initialization is reported as a success
SensorInit_reports_success ==
    /\ sensor_pc = "init"
    /\ \E ok \in BOOLEAN :
          /\ Report("Sensor", TRUE)
          /\ io_failed' = (io_failed \/ ~ok)
          /\ IF ok
             THEN /\ sensor_pc' = "warmup"
                  /\ sensor_wake' = now + WARMUP_TIME
             ELSE /\ sensor_pc' = "returned"
                  /\ sensor_wake' = sensor_wake
    /\ UNCHANGED <<now, auxVars, watchdogVars, channelVars, system_state, sensor_i, aht_ok,
                   cycle, vsysVars, ms_wake, orchVars, displayVars>>

\* initialize_sensors, then the first report and the warmup timer
SensorInit ==
    /\ sensor_pc = "init"
    /\ \E ok \in BOOLEAN :
          /\ Report("Sensor", ok)
          /\ io_failed' = (io_failed \/ ~ok)
          /\ IF ok
             THEN /\ sensor_pc' = "warmup"
                  /\ sensor_wake' = now + WARMUP_TIME
             ELSE /\ sensor_pc' = "returned"
                  /\ sensor_wake' = sensor_wake
    /\ UNCHANGED <<now, auxVars, watchdogVars, channelVars, system_state, sensor_i, aht_ok,
                   cycle, vsysVars, ms_wake, orchVars, displayVars>>

SensorTimerDue == sensor_pc \in {"warmup", "sleep"} /\ now >= sensor_wake

\* mutation: a failed compensation write ends the task
SensorStartCycle_returns_on_error ==
    /\ SensorTimerDue
    /\ \E aht \in BOOLEAN, comp \in BOOLEAN :
          /\ io_failed' = (io_failed \/ ~aht \/ ~comp)
          /\ cycle' = [failed |-> ~aht \/ ~comp, sent |-> 0,
                       reports |-> IF comp THEN 0 ELSE 1]
          /\ IF comp
             THEN /\ sensor_pc' = "wait_int"
                  /\ sensor_i' = 0
                  /\ aht_ok' = aht
                  /\ sensor_wake' = sensor_wake
                  /\ NoReport("Sensor")
             ELSE /\ sensor_pc' = "returned"
                  /\ sensor_wake' = now + READ_INTERVAL
                  /\ UNCHANGED <<sensor_i, aht_ok>>
                  /\ Report("Sensor", FALSE)
    /\ UNCHANGED <<now, auxVars, watchdogVars, channelVars, system_state,
                   vsysVars, ms_wake, orchVars, displayVars>>

\* handle_sensor_iteration up to the first data-ready wait: read_aht21 and
\* set_ens160_compensation
SensorStartCycle ==
    /\ SensorTimerDue
    /\ \E aht \in BOOLEAN, comp \in BOOLEAN :
          /\ io_failed' = (io_failed \/ ~aht \/ ~comp)
          /\ cycle' = [failed |-> ~aht \/ ~comp, sent |-> 0,
                       reports |-> IF comp THEN 0 ELSE 1]
          /\ IF comp
             THEN /\ sensor_pc' = "wait_int"
                  /\ sensor_i' = 0
                  /\ aht_ok' = aht
                  /\ sensor_wake' = sensor_wake
                  /\ NoReport("Sensor")
             ELSE /\ sensor_pc' = "sleep"
                  /\ sensor_wake' = now + READ_INTERVAL
                  /\ UNCHANGED <<sensor_i, aht_ok>>
                  /\ Report("Sensor", FALSE)
    /\ UNCHANGED <<now, auxVars, watchdogVars, channelVars, system_state,
                   vsysVars, ms_wake, orchVars, displayVars>>

\* mutation: the event is sent whenever the ENS160 readings succeed
SensorReading_ignores_aht ==
    /\ sensor_pc = "wait_int"
    /\ \E ok \in BOOLEAN :
          /\ io_failed' = (io_failed \/ ~ok)
          /\ IF ok /\ sensor_i + 1 < ENS160_MEDIAN_READINGS
             THEN /\ sensor_i' = sensor_i + 1
                  /\ cycle' = cycle
                  /\ UNCHANGED <<sensor_pc, sensor_wake, aht_ok>>
                  /\ UNCHANGED <<health, unhealthy_since, sensor_reported_at, reported>>
             ELSE IF ok
             THEN /\ sensor_pc' = "send"
                  /\ cycle' = cycle
                  /\ UNCHANGED <<sensor_i, sensor_wake, aht_ok>>
                  /\ UNCHANGED <<health, unhealthy_since, sensor_reported_at, reported>>
             ELSE /\ sensor_pc' = "sleep"
                  /\ sensor_wake' = now + READ_INTERVAL
                  /\ cycle' = [cycle EXCEPT !.failed = @ \/ ~ok, !.reports = @ + 1]
                  /\ UNCHANGED <<sensor_i, aht_ok>>
                  /\ Report("Sensor", FALSE)
    /\ UNCHANGED <<now, auxVars, watchdogVars, channelVars, system_state,
                   vsysVars, ms_wake, orchVars, displayVars>>

\* read_ens160: the data-ready interrupt arrives and reading i is taken
SensorReading ==
    /\ sensor_pc = "wait_int"
    /\ \E ok \in BOOLEAN :
          /\ io_failed' = (io_failed \/ ~ok)
          /\ IF ok /\ sensor_i + 1 < ENS160_MEDIAN_READINGS
             THEN /\ sensor_i' = sensor_i + 1
                  /\ cycle' = cycle
                  /\ UNCHANGED <<sensor_pc, sensor_wake, aht_ok>>
                  /\ UNCHANGED <<health, unhealthy_since, sensor_reported_at, reported>>
             ELSE IF ok /\ aht_ok
             THEN /\ sensor_pc' = "send"
                  /\ cycle' = cycle
                  /\ UNCHANGED <<sensor_i, sensor_wake, aht_ok>>
                  /\ UNCHANGED <<health, unhealthy_since, sensor_reported_at, reported>>
             ELSE /\ sensor_pc' = "sleep"
                  /\ sensor_wake' = now + READ_INTERVAL
                  /\ cycle' = [cycle EXCEPT !.failed = @ \/ ~ok, !.reports = @ + 1]
                  /\ UNCHANGED <<sensor_i, aht_ok>>
                  /\ Report("Sensor", FALSE)
    /\ UNCHANGED <<now, auxVars, watchdogVars, channelVars, system_state,
                   vsysVars, ms_wake, orchVars, displayVars>>

\* read_ens160: the data-ready line never goes low and wait_for_low never
\* returns.  The sensor raises data-ready about once a second, so on the
\* grid the wait either returns within the instant or not at all.
SensorHang ==
    /\ sensor_pc = "wait_int"
    /\ sensor_pc' = "hung"
    /\ UNCHANGED <<now, auxVars, healthVars, ghostVars, channelVars, system_state,
                   sensor_wake, sensor_i, aht_ok, cycle, vsysVars, ms_wake, orchVars,
                   displayVars>>

\* send_event(Event::SensorData), the report and the inter-cycle timer
SensorSend ==
    /\ sensor_pc = "send"
    /\ EventChannelHasRoom
    /\ \E c \in CO2Values :
          event_channel' = Append(event_channel, SensorDataEvent(c))
    /\ Report("Sensor", TRUE)
    /\ cycle' = [cycle EXCEPT !.sent = @ + 1, !.reports = @ + 1]
    /\ sensor_pc' = "sleep"
    /\ sensor_wake' = now + READ_INTERVAL
    /\ UNCHANGED <<now, auxVars, watchdogVars, display_channel, system_state, sensor_i, aht_ok,
                   io_failed, vsysVars, ms_wake, orchVars, displayVars>>

SensorReady ==
    \/ sensor_pc = "init"
    \/ sensor_pc = "wait_int"
    \/ SensorTimerDue
    \/ sensor_pc = "send" /\ EventChannelHasRoom

(***************************************************************************)
(* vsys_voltage_task (vsys.rs).                                            *)
(***************************************************************************)
\* mutation: a change of percentage sends BatteryLevel while charging too
vsys_event_level_while_charging(prev_charging, prev_percentage, is_charging, battery_percentage) ==
    LET charging_state_changed == prev_charging # Some(is_charging)
        battery_level_changed ==
            prev_percentage # Some(battery_percentage)
    IN  IF charging_state_changed
        THEN IF is_charging
             THEN Some(BatteryChargingEvent)
             ELSE Some(BatteryLevelEvent(battery_percentage))
        ELSE IF battery_level_changed
        THEN Some(BatteryLevelEvent(battery_percentage))
        ELSE None

\* the event one successful measurement sends, if any (vsys.rs 73-94)
vsys_event(prev_charging, prev_percentage, is_charging, battery_percentage) ==
    LET charging_state_changed == prev_charging # Some(is_charging)
        battery_level_changed ==
            ~is_charging /\ prev_percentage # Some(battery_percentage)
    IN  IF charging_state_changed
        THEN IF is_charging
             THEN Some(BatteryChargingEvent)
             ELSE Some(BatteryLevelEvent(battery_percentage))
        ELSE IF battery_level_changed
        THEN Some(BatteryLevelEvent(battery_percentage))
        ELSE None

\* the end of a successful iteration (vsys.rs 88-102)
VsysFinish(is_charging, battery_percentage) ==
    /\ prev_charging_state' = Some(is_charging)
    /\ prev_battery_percentage' =
          IF ~is_charging THEN Some(battery_percentage) ELSE prev_battery_percentage
    /\ Report("Vsys", TRUE)
    /\ vsys_pc' = "sleep"
    /\ vsys_wake' = now + INTERVAL
    /\ vsys_reading' = None

VsysTimerDue == vsys_pc = "sleep" /\ now >= vsys_wake

\* the timer expires and read_voltage returns a failure or a measurement
\* whose battery percentage is one of percentages
VsysMeasureFrom(percentages) ==
    /\ VsysTimerDue
    /\ \/ \* Err(e)
          /\ Report("Vsys", FALSE)
          /\ io_failed' = TRUE
          /\ vsys_wake' = now + INTERVAL
          /\ UNCHANGED <<vsys_pc, vsys_reading, prev_charging_state, prev_battery_percentage>>
       \/ \* Ok(voltage)
          \E is_charging \in BOOLEAN, battery_percentage \in percentages :
             LET event == vsys_event(prev_charging_state, prev_battery_percentage,
                                     is_charging, battery_percentage)
             IN  /\ io_failed' = io_failed
                 /\ IF IsSome(event)
                    THEN /\ vsys_pc' = "send"
                         /\ vsys_reading' = Some([is_charging |-> is_charging,
                                                  battery_percentage |-> battery_percentage,
                                                  event |-> Unwrap(event)])
                         /\ NoReport("Vsys")
                         /\ UNCHANGED <<vsys_wake, prev_charging_state, prev_battery_percentage>>
                    ELSE VsysFinish(is_charging, battery_percentage)
    /\ UNCHANGED <<now, auxVars, watchdogVars, channelVars, system_state, sensorVars,
                   ms_wake, orchVars, displayVars>>

VsysMeasure == VsysMeasureFrom(Percentages)

\* send_event completes
VsysSend ==
    /\ vsys_pc = "send"
    /\ EventChannelHasRoom
    /\ event_channel' = Append(event_channel, Unwrap(vsys_reading).event)
    /\ VsysFinish(Unwrap(vsys_reading).is_charging, Unwrap(vsys_reading).battery_percentage)
    /\ UNCHANGED <<now, auxVars, watchdogVars, display_channel, system_state, sensorVars,
                   io_failed, ms_wake, orchVars, displayVars>>

VsysReady ==
    \/ VsysTimerDue
    \/ vsys_pc = "send" /\ EventChannelHasRoom

(***************************************************************************)
(* mode_switch_task (display.rs): the timer has expired and the send       *)
(* completes.                                                              *)
(***************************************************************************)
ModeSwitchReady == now >= ms_wake /\ EventChannelHasRoom

ModeSwitchSend ==
    /\ ModeSwitchReady
    /\ event_channel' = Append(event_channel, ToggleDisplayModeEvent)
    /\ ms_wake' = now + TOGGLE_MODE
    /\ NoReport("ModeSwitch")
    /\ UNCHANGED <<now, auxVars, watchdogVars, display_channel, system_state, sensorVars,
                   vsysVars, io_failed, orchVars, displayVars>>

(***************************************************************************)
(* orchestrate_task (orchestrate.rs).                                      *)
(***************************************************************************)
\* receive_event returns; process_event runs up to send_display_command
OrchReceive ==
    /\ orch_pc = "recv"
    /\ event_channel # << >>
    /\ LET event == Head(event_channel)
           command == process_event_command(system_state, event)
       IN  /\ event_channel' = Tail(event_channel)
           /\ system_state' = process_event_state(system_state, event)
           /\ IF IsSome(command)
              THEN /\ orch_pc' = "send"
                   /\ orch_event' = Some(event)
                   /\ orch_cmd' = command
                   /\ NoReport("Orchestrator")
              ELSE /\ orch_pc' = "recv"
                   /\ orch_event' = None
                   /\ orch_cmd' = None
                   /\ Report("Orchestrator", TRUE)
    /\ UNCHANGED <<now, auxVars, watchdogVars, display_channel, sensorVars, vsysVars,
                   io_failed, ms_wake, displayVars>>

\* mutation: the command is put at the front of the display channel
OrchSend_prepends ==
    /\ orch_pc = "send"
    /\ DisplayChannelHasRoom
    /\ display_channel' = <<Unwrap(orch_cmd)>> \o display_channel
    /\ orch_pc' = "recv"
    /\ orch_event' = None
    /\ orch_cmd' = None
    /\ Report("Orchestrator", TRUE)
    /\ UNCHANGED <<now, auxVars, watchdogVars, event_channel, system_state, sensorVars, vsysVars,
                   io_failed, ms_wake, displayVars>>

\* send_display_command completes; process_event reports and returns
OrchSend ==
    /\ orch_pc = "send"
    /\ DisplayChannelHasRoom
    /\ display_channel' = Append(display_channel, Unwrap(orch_cmd))
    /\ orch_pc' = "recv"
    /\ orch_event' = None
    /\ orch_cmd' = None
    /\ Report("Orchestrator", TRUE)
    /\ UNCHANGED <<now, auxVars, watchdogVars, event_channel, system_state, sensorVars, vsysVars,
                   io_failed, ms_wake, displayVars>>

OrchReady ==
    \/ orch_pc = "recv" /\ event_channel # << >>
    \/ orch_pc = "send" /\ DisplayChannelHasRoom

(***************************************************************************)
(* display_task (display.rs).                                              *)
(***************************************************************************)
\* forces the reset at once
trigger_watchdog_reset == hw_watchdog' = "started"

\* display.init, set_brightness, first flush, Settings::new, startup screen
DisplayInit ==
    /\ display_pc = "init"
    /\ \E ok \in BOOLEAN :
          /\ io_failed' = (io_failed \/ ~ok)
          /\ IF ok
             THEN /\ display_pc' = "wait"
                  /\ hw_watchdog' = hw_watchdog
             ELSE /\ display_pc' = "returned"
                  /\ trigger_watchdog_reset
    /\ UNCHANGED <<now, auxVars, health, wd_pc, wd_wake, unhealthy_since, sensor_reported_at, reported,
                   channelVars, system_state, sensorVars, vsysVars, ms_wake, orchVars,
                   display_cmd>>

\* wait_for_display_command returns; the command is drawn from SYSTEM_STATE
DisplayReceive ==
    /\ display_pc = "wait"
    /\ display_channel # << >>
    /\ display_cmd' = Some(Head(display_channel))
    /\ display_channel' = Tail(display_channel)
    /\ display_pc' = "flush"
    /\ NoReport("Display")
    /\ UNCHANGED <<now, auxVars, watchdogVars, event_channel, system_state, sensorVars, vsysVars,
                   io_failed, ms_wake, orchVars>>

\* display.flush returns; an error is logged and the loop continues
DisplayFlush ==
    /\ display_pc = "flush"
    /\ \E ok \in BOOLEAN : io_failed' = (io_failed \/ ~ok)
    /\ display_pc' = "wait"
    /\ display_cmd' = None
    /\ UNCHANGED <<now, auxVars, healthVars, sensor_reported_at, reported, channelVars, system_state,
                   sensorVars, vsysVars, ms_wake, orchVars>>

DisplayReady ==
    \/ display_pc = "init"
    \/ display_pc = "wait" /\ display_channel # << >>
    \/ display_pc = "flush"

(***************************************************************************)
(* f32 arithmetic.  A finite IEEE 754 binary32 value is                    *)
(* (-1)^sign * man * 2^exp with man = 0 or 2^23 <= man < 2^24; every       *)
(* operation rounds to nearest, ties to even.  The values of the           *)
(* calibrator stay far from the subnormal range, infinities and NaN; -0.0  *)
(* is identified with 0.0, to which it compares equal.                     *)
(***************************************************************************)
f32_zero == [sign |-> 0, exp |-> 0, man |-> 0]

RECURSIVE BitLength(_)
BitLength(r) == IF r = 0 THEN 0 ELSE 1 + BitLength(r \div 2)

\* the f32 nearest to (r + fraction) * 2^e, where 0 <= fraction < 1 and
\* fraction > 0 iff sticky; r has at least 26 bits when sticky
f32_round(sign, r, e, sticky) ==
    IF r = 0
    THEN f32_zero
    ELSE LET n == BitLength(r)
         IN  IF n <= 24
             THEN [sign |-> sign, exp |-> e - (24 - n), man |-> r * 2^(24 - n)]
             ELSE LET k == n - 24
                      q == r \div 2^k
                      rem == r % 2^k
                      half == 2^(k - 1)
                      up == rem > half \/ (rem = half /\ (sticky \/ q % 2 = 1))
                      m == IF up THEN q + 1 ELSE q
                  IN  IF m = 2^24
                      THEN [sign |-> sign, exp |-> e + k + 1, man |-> 2^23]
                      ELSE [sign |-> sign, exp |-> e + k, man |-> m]

\* an integer of magnitude below 2^24 as f32 (exact)
f32_from(i) == f32_round(IF i < 0 THEN 1 ELSE 0, IF i < 0 THEN -i ELSE i, 0, FALSE)

f32_neg(a) == IF a.man = 0 THEN a ELSE [a EXCEPT !.sign = 1 - @]

f32_abs(a) == [a EXCEPT !.sign = 0]

\* -1, 0, 1 as a < b, a = b, a > b
f32_cmp(a, b) ==
    LET sa == IF a.man = 0 THEN 0 ELSE IF a.sign = 1 THEN -1 ELSE 1
        sb == IF b.man = 0 THEN 0 ELSE IF b.sign = 1 THEN -1 ELSE 1
        mag == IF a.exp # b.exp
               THEN (IF a.exp < b.exp THEN -1 ELSE 1)
               ELSE IF a.man # b.man
               THEN (IF a.man < b.man THEN -1 ELSE 1)
               ELSE 0
    IN  IF sa # sb
        THEN (IF sa < sb THEN -1 ELSE 1)
        ELSE sa * mag

f32_lt(a, b) == f32_cmp(a, b) < 0
f32_le(a, b) == f32_cmp(a, b) <= 0
f32_ge(a, b) == f32_cmp(a, b) >= 0
f32_gt(a, b) == f32_cmp(a, b) > 0

f32_add(a, b) ==
    IF a.man = 0 THEN b
    ELSE IF b.man = 0 THEN a
    ELSE LET hi == IF a.exp >= b.exp THEN a ELSE b
             lo == IF a.exp >= b.exp THEN b ELSE a
             d == hi.exp - lo.exp
             hm == hi.man * 8
             lm == IF d > 27 THEN 0 ELSE (lo.man * 8) \div 2^d
             sticky == IF d > 27 THEN TRUE ELSE (lo.man * 8) % 2^d # 0
             e == hi.exp - 3
         IN  IF hi.sign = lo.sign
             THEN f32_round(hi.sign, hm + lm, e, sticky)
             ELSE IF hm >= lm
             THEN f32_round(hi.sign, hm - lm - (IF sticky THEN 1 ELSE 0), e, sticky)
             ELSE f32_round(lo.sign, lm - hm, e, FALSE)

f32_sub(a, b) == f32_add(a, f32_neg(b))

f32_mul(a, b) ==
    IF a.man = 0 \/ b.man = 0
    THEN f32_zero
    ELSE LET a1 == a.man \div 4096
             a0 == a.man % 4096
             b1 == b.man \div 4096
             b0 == b.man % 4096
             mid == a1 * b0 + a0 * b1
             t == (mid % 4096) * 4096 + a0 * b0
             lo == t % 2^24
             hi == a1 * b1 + mid \div 4096 + t \div 2^24
             sign == IF a.sign = b.sign THEN 0 ELSE 1
             \* the product is hi * 2^24 + lo; keep 27 bits of it and a sticky flag
             top == hi * 8 + lo \div 2^21
         IN  f32_round(sign, top, a.exp + b.exp + 21, lo % 2^21 # 0)

\* n more quotient bits of rem / mb by long division
RECURSIVE DivBits(_, _, _, _)
DivBits(rem, mb, q, n) ==
    IF n = 0
    THEN <<q, rem>>
    ELSE IF rem * 2 >= mb
    THEN DivBits(rem * 2 - mb, mb, 2 * q + 1, n - 1)
    ELSE DivBits(rem * 2, mb, 2 * q, n - 1)

f32_div(a, b) ==
    IF a.man = 0
    THEN f32_zero
    ELSE LET q0 == IF a.man >= b.man THEN 1 ELSE 0
             res == DivBits(a.man - q0 * b.man, b.man, q0, 26)
             sign == IF a.sign = b.sign THEN 0 ELSE 1
         IN  f32_round(sign, res[1], a.exp - b.exp - 26, res[2] # 0)

f32_clamp(a, min, max) ==
    IF f32_lt(a, min) THEN min ELSE IF f32_gt(a, max) THEN max ELSE a

(***************************************************************************)
(* HumidityCalibrator (humidity_calibrator.rs).  Every operator takes the  *)
(* calibrator (self) and returns the calibrator it leaves behind, with     *)
(* the returned value where there is one.                                  *)
(***************************************************************************)
INITIAL_BASELINE_READINGS == 5
DRIFT_LEARNING_RATE == f32_div(f32_from(2), f32_from(100))
MIN_DRIFT_THRESHOLD == f32_from(2)
RAPID_CHANGE_THRESHOLD == f32_from(5)
CHANGE_HISTORY_SIZE == 3
MIN_STABLE_READINGS_AFTER_RAPID_CHANGE == 12
BASELINE_SHIFT_THRESHOLD == f32_from(8)
BASELINE_SHIFT_CONFIRMATION_READINGS == 6
MIN_READINGS_FOR_LONG_TERM_DRIFT == 100
LONG_TERM_DRIFT_THRESHOLD == f32_from(10)
LONG_TERM_DRIFT_LEARNING_RATE == f32_div(f32_from(5), f32_from(1000))

HumidityCalibrator_new ==
    [recent_readings |-> << >>,
     humidity_offset |-> f32_zero,
     current_baseline |-> None,
     baseline_reading_count |-> 0,
     reading_sequence |-> 0,
     stable_reading_count |-> 0,
     in_rapid_change_period |-> FALSE,
     pre_change_baseline |-> None,
     baseline_confirmation_count |-> 0,
     baseline_shifted |-> FALSE,
     long_term_statistical_offset |-> f32_zero,
     long_term_stable_count |-> 0]

expected_indoor_humidity(temperature_c) ==
    LET base_humidity == f32_from(45)
        temp_coefficient == f32_div(f32_from(-1), f32_from(2))
        seasonal_variation == f32_from(5)
        expected == f32_add(base_humidity,
                            f32_mul(f32_sub(f32_from(25), temperature_c), temp_coefficient))
    IN  f32_clamp(expected,
                  f32_sub(f32_from(30), seasonal_variation),
                  f32_add(f32_from(60), seasonal_variation))

\* Iterator::sum::<f32>() of the readings, left to right
RECURSIVE f32_sum(_)
f32_sum(readings) ==
    IF readings = << >>
    THEN f32_zero
    ELSE f32_add(f32_sum(SubSeq(readings, 1, Len(readings) - 1)),
                 readings[Len(readings)])

detect_rapid_change(self, raw_humidity) ==
    LET pushed ==
            [self EXCEPT
                !.reading_sequence = @ + 1,
                !.recent_readings =
                    Append(IF Len(@) >= CHANGE_HISTORY_SIZE THEN Tail(@) ELSE @,
                           raw_humidity)]
        n == Len(pushed.recent_readings)
        oldest_reading == pushed.recent_readings[1]
        total_change == f32_sub(raw_humidity, oldest_reading)
        is_rapid_change == f32_ge(f32_abs(total_change), RAPID_CHANGE_THRESHOLD)
    IN  IF n < 2
        THEN [self |-> [pushed EXCEPT !.stable_reading_count = 0,
                                      !.baseline_confirmation_count = 0],
              is_rapid_change |-> FALSE,
              total_change |-> f32_zero]
        ELSE IF is_rapid_change
        THEN LET baseline ==
                     f32_div(f32_sum(SubSeq(pushed.recent_readings, 1, n - 1)),
                             f32_from(n - 1))
                 stored ==
                     IF pushed.pre_change_baseline = None /\ ~pushed.in_rapid_change_period
                     THEN [pushed EXCEPT !.pre_change_baseline = Some(baseline)]
                     ELSE pushed
             IN  [self |-> [stored EXCEPT !.stable_reading_count = 0,
                                          !.baseline_confirmation_count = 0,
                                          !.in_rapid_change_period = TRUE,
                                          !.baseline_shifted = FALSE],
                  is_rapid_change |-> TRUE,
                  total_change |-> total_change]
        ELSE LET stable == [pushed EXCEPT !.stable_reading_count = @ + 1]
                 after ==
                     IF IsSome(stable.pre_change_baseline)
                     THEN LET baseline == Unwrap(stable.pre_change_baseline)
                              change_from_baseline == f32_sub(raw_humidity, baseline)
                          IN  IF f32_ge(f32_abs(change_from_baseline),
                                        BASELINE_SHIFT_THRESHOLD)
                              THEN LET counted ==
                                           [stable EXCEPT
                                               !.baseline_confirmation_count = @ + 1]
                                   IN  IF counted.baseline_confirmation_count
                                              >= BASELINE_SHIFT_CONFIRMATION_READINGS
                                       THEN [counted EXCEPT !.baseline_shifted = TRUE]
                                       ELSE counted
                              ELSE IF stable.stable_reading_count
                                         >= MIN_STABLE_READINGS_AFTER_RAPID_CHANGE
                              THEN [stable EXCEPT
                                       !.baseline_confirmation_count = 0,
                                       !.in_rapid_change_period = FALSE,
                                       !.current_baseline = Some(raw_humidity),
                                       !.baseline_reading_count = INITIAL_BASELINE_READINGS,
                                       !.pre_change_baseline = None,
                                       !.baseline_shifted = FALSE,
                                       !.humidity_offset = f32_zero]
                              ELSE [stable EXCEPT !.baseline_confirmation_count = 0]
                     ELSE IF stable.stable_reading_count
                                >= MIN_STABLE_READINGS_AFTER_RAPID_CHANGE
                     THEN [stable EXCEPT !.in_rapid_change_period = FALSE]
                     ELSE stable
             IN  [self |-> after,
                  is_rapid_change |-> FALSE,
                  total_change |-> total_change]

\* mutation: the reset leaves the baseline marked as established
reset_calibration_for_rapid_change_keeps_count(self) ==
    [self EXCEPT !.current_baseline = None,
                 !.baseline_reading_count = @,
                 !.humidity_offset = f32_zero]

reset_calibration_for_rapid_change(self) ==
    [self EXCEPT !.current_baseline = None,
                 !.baseline_reading_count = 0,
                 !.humidity_offset = f32_zero]

handle_rapid_change(self, raw_humidity) ==
    LET detected == detect_rapid_change(self, raw_humidity)
    IN  IF detected.is_rapid_change
        THEN [self |-> reset_calibration_for_rapid_change(detected.self), result |-> TRUE]
        ELSE [self |-> detected.self, result |-> detected.self.in_rapid_change_period]

\* mutation: update_baseline_establishment averaging the baseline and the reading with equal weight
update_baseline_establishment_halves(self, raw_humidity) ==
    IF self.baseline_reading_count >= INITIAL_BASELINE_READINGS
    THEN [self |-> self, result |-> FALSE]
    ELSE LET new_baseline ==
                 IF self.current_baseline = None
                 THEN raw_humidity
                 ELSE f32_div(f32_add(Unwrap(self.current_baseline), raw_humidity),
                              f32_from(2))
         IN  [self |-> [self EXCEPT !.current_baseline = Some(new_baseline),
                                    !.baseline_reading_count = @ + 1],
              result |-> TRUE]

update_baseline_establishment(self, raw_humidity) ==
    IF self.baseline_reading_count >= INITIAL_BASELINE_READINGS
    THEN [self |-> self, result |-> FALSE]
    ELSE LET new_baseline ==
                 IF self.current_baseline = None
                 THEN raw_humidity
                 ELSE f32_div(f32_add(f32_mul(Unwrap(self.current_baseline),
                                              f32_from(self.baseline_reading_count)),
                                      raw_humidity),
                              f32_from(self.baseline_reading_count + 1))
         IN  [self |-> [self EXCEPT !.current_baseline = Some(new_baseline),
                                    !.baseline_reading_count = @ + 1],
              result |-> TRUE]

update_long_term_stability(self, drift) ==
    IF ~self.in_rapid_change_period /\ f32_lt(f32_abs(drift), RAPID_CHANGE_THRESHOLD)
    THEN [self EXCEPT !.long_term_stable_count = @ + 1]
    ELSE [self EXCEPT !.long_term_stable_count = 0]

\* mutation: apply_long_term_drift_correction blending in the error instead of its negation
apply_long_term_drift_correction_adds_error(self, temperature, raw_humidity) ==
    IF self.long_term_stable_count < MIN_READINGS_FOR_LONG_TERM_DRIFT
    THEN self
    ELSE LET expected == expected_indoor_humidity(temperature)
             statistical_error == f32_sub(raw_humidity, expected)
         IN  IF f32_ge(f32_abs(statistical_error), LONG_TERM_DRIFT_THRESHOLD)
             THEN [self EXCEPT !.long_term_statistical_offset =
                      f32_add(f32_mul(@, f32_sub(f32_from(1), LONG_TERM_DRIFT_LEARNING_RATE)),
                              f32_mul(statistical_error,
                                      LONG_TERM_DRIFT_LEARNING_RATE))]
             ELSE self

apply_long_term_drift_correction(self, temperature, raw_humidity) ==
    IF self.long_term_stable_count < MIN_READINGS_FOR_LONG_TERM_DRIFT
    THEN self
    ELSE LET expected == expected_indoor_humidity(temperature)
             statistical_error == f32_sub(raw_humidity, expected)
         IN  IF f32_ge(f32_abs(statistical_error), LONG_TERM_DRIFT_THRESHOLD)
             THEN [self EXCEPT !.long_term_statistical_offset =
                      f32_add(f32_mul(@, f32_sub(f32_from(1), LONG_TERM_DRIFT_LEARNING_RATE)),
                              f32_mul(f32_neg(statistical_error),
                                      LONG_TERM_DRIFT_LEARNING_RATE))]
             ELSE self

\* mutation: apply_baseline_drift_correction setting the offset to -drift at once
apply_baseline_drift_correction_snaps(self, baseline, raw_humidity) ==
    LET drift == f32_sub(raw_humidity, baseline)
    IN  IF f32_ge(f32_abs(drift), MIN_DRIFT_THRESHOLD)
        THEN [self EXCEPT !.humidity_offset = f32_neg(drift)]
        ELSE self

apply_baseline_drift_correction(self, baseline, raw_humidity) ==
    LET drift == f32_sub(raw_humidity, baseline)
    IN  IF f32_ge(f32_abs(drift), MIN_DRIFT_THRESHOLD)
        THEN [self EXCEPT !.humidity_offset =
                 f32_add(f32_mul(@, f32_sub(f32_from(1), DRIFT_LEARNING_RATE)),
                         f32_mul(f32_neg(drift), DRIFT_LEARNING_RATE))]
        ELSE self

\* mutation: add_measurement without the early return of the rapid-change period
add_measurement_corrects_during_change(self, temperature, raw_humidity) ==
    LET detected == detect_rapid_change(self, raw_humidity).self
        handled == handle_rapid_change(detected, raw_humidity)
        established == update_baseline_establishment(handled.self, raw_humidity)
    IN  IF established.result
        THEN established.self
        ELSE IF IsSome(established.self.current_baseline)
        THEN LET baseline == Unwrap(established.self.current_baseline)
                 drift == f32_sub(raw_humidity, baseline)
             IN  apply_baseline_drift_correction(
                     apply_long_term_drift_correction(
                         update_long_term_stability(established.self, drift),
                         temperature, raw_humidity),
                     baseline, raw_humidity)
        ELSE established.self

add_measurement(self, temperature, raw_humidity) ==
    LET detected == detect_rapid_change(self, raw_humidity).self
        handled == handle_rapid_change(detected, raw_humidity)
        established == update_baseline_establishment(handled.self, raw_humidity)
    IN  IF handled.result
        THEN handled.self
        ELSE IF established.result
        THEN established.self
        ELSE IF IsSome(established.self.current_baseline)
        THEN LET baseline == Unwrap(established.self.current_baseline)
                 drift == f32_sub(raw_humidity, baseline)
             IN  apply_baseline_drift_correction(
                     apply_long_term_drift_correction(
                         update_long_term_stability(established.self, drift),
                         temperature, raw_humidity),
                     baseline, raw_humidity)
        ELSE established.self

\* mutation: calibrate_humidity returning the corrected value without the clamp
calibrate_humidity_unclamped(self, temperature, raw_humidity) ==
    IF self.baseline_reading_count < INITIAL_BASELINE_READINGS
    THEN raw_humidity
    ELSE LET baseline_corrected == f32_add(raw_humidity, self.humidity_offset)
             fully_corrected ==
                 f32_add(baseline_corrected, self.long_term_statistical_offset)
         IN  fully_corrected

calibrate_humidity(self, temperature, raw_humidity) ==
    IF self.baseline_reading_count < INITIAL_BASELINE_READINGS
    THEN raw_humidity
    ELSE LET baseline_corrected == f32_add(raw_humidity, self.humidity_offset)
             fully_corrected ==
                 f32_add(baseline_corrected, self.long_term_statistical_offset)
         IN  f32_clamp(fully_corrected, f32_zero, f32_from(100))

(***************************************************************************)
(* The HumidityCalibrator of sensor.rs, the one sensor_task creates: a     *)
(* statistical offset learned from the stored data points.  Its            *)
(* expected_indoor_humidity is the same function as the one above.         *)
(***************************************************************************)
AHT21_TEMPERATURE_OFFSET == f32_div(f32_from(-7), f32_from(2))
HUMIDITY_CALIBRATION_SAMPLES == 50
MIN_CALIBRATION_SAMPLES == 10
OUTLIER_THRESHOLD == f32_div(f32_from(5), f32_from(2))
CALIBRATION_LEARNING_RATE == f32_div(f32_from(1), f32_from(10))

f32_max(a, b) == IF f32_ge(a, b) THEN a ELSE b

\* `as u16` of a non-negative f32: the fraction is dropped, the value saturates
f32_as_u16(a) ==
    IF a.sign = 1 \/ a.man = 0
    THEN 0
    ELSE IF a.exp >= 0
    THEN (IF a.exp > 7 THEN 65535
          ELSE IF a.man * 2^a.exp > 65535 THEN 65535 ELSE a.man * 2^a.exp)
    ELSE IF -a.exp >= 24
    THEN 0
    ELSE (IF a.man \div 2^(-a.exp) > 65535 THEN 65535 ELSE a.man \div 2^(-a.exp))

RECURSIVE sqrt_f32_iterate(_, _, _)
sqrt_f32_iterate(x, result, n) ==
    IF n = 0
    THEN result
    ELSE sqrt_f32_iterate(x, f32_div(f32_add(result, f32_div(x, result)), f32_from(2)), n - 1)

sqrt_f32(x) ==
    IF f32_lt(x, f32_zero) \/ x.man = 0
    THEN f32_zero
    ELSE sqrt_f32_iterate(x, f32_div(x, f32_from(2)), 10)

StatCalibrator_new ==
    [data_points |-> << >>,
     humidity_offset |-> f32_zero,
     runtime_hours |-> 0,
     offset_sample_count |-> 0]

update_runtime(self, hours) == [self EXCEPT !.runtime_hours = hours]

\* calculate_statistics: the error of every stored point
humidity_errors(data_points) ==
    [k \in 1..Len(data_points) |->
        f32_sub(data_points[k].raw_humidity,
                expected_indoor_humidity(data_points[k].temperature))]

\* iter().sum::<f32>() / len() as f32
f32_mean(values) == f32_div(f32_sum(values), f32_from(Len(values)))

\* calculate_statistics: .map(|&e| (e - mean_error) * (e - mean_error))
squared_deviations(values, mean_error) ==
    [k \in 1..Len(values) |->
        f32_mul(f32_sub(values[k], mean_error), f32_sub(values[k], mean_error))]

\* calculate_statistics: the pair (mean_error, std_dev) of the errors
statistics_of(errors, mean_error) ==
    Some([mean_error |-> mean_error,
          std_dev |-> sqrt_f32(f32_mean(squared_deviations(errors, mean_error)))])

mean_and_std_dev(errors) == statistics_of(errors, f32_mean(errors))

calculate_statistics(self) ==
    IF Len(self.data_points) < MIN_CALIBRATION_SAMPLES
    THEN None
    ELSE mean_and_std_dev(humidity_errors(self.data_points))

\* is_outlier, given the result of calculate_statistics
is_outlier_by(statistics, temperature, raw_humidity) ==
    IF IsSome(statistics)
    THEN f32_gt(f32_div(f32_abs(f32_sub(f32_sub(raw_humidity,
                                                expected_indoor_humidity(temperature)),
                                        Unwrap(statistics).mean_error)),
                        f32_max(Unwrap(statistics).std_dev, f32_from(1))),
                OUTLIER_THRESHOLD)
    ELSE FALSE

is_outlier(self, temperature, raw_humidity) ==
    is_outlier_by(calculate_statistics(self), temperature, raw_humidity)

\* update_calibration_offset, given the result of calculate_statistics
update_calibration_offset_by(self, statistics) ==
    IF IsSome(statistics)
    THEN IF self.offset_sample_count = 0
         THEN [self EXCEPT !.humidity_offset = f32_neg(Unwrap(statistics).mean_error),
                           !.offset_sample_count = 1]
         ELSE [self EXCEPT !.humidity_offset =
                  f32_add(f32_mul(@, f32_sub(f32_from(1), CALIBRATION_LEARNING_RATE)),
                          f32_mul(f32_neg(Unwrap(statistics).mean_error),
                                  CALIBRATION_LEARNING_RATE))]
    ELSE self

update_calibration_offset(self) ==
    update_calibration_offset_by(self, calculate_statistics(self))

stat_add_measurement(self, temperature, raw_humidity) ==
    IF is_outlier(self, temperature, raw_humidity)
    THEN self
    ELSE LET data_point == [temperature |-> temperature,
                            raw_humidity |-> raw_humidity,
                            timestamp_hours |-> self.runtime_hours]
         IN  update_calibration_offset(
                 [self EXCEPT !.data_points =
                     Append(IF Len(@) >= HUMIDITY_CALIBRATION_SAMPLES THEN Tail(@) ELSE @,
                            data_point)])

stat_calibrate_humidity(self, temperature, raw_humidity) ==
    IF Len(self.data_points) < MIN_CALIBRATION_SAMPLES
    THEN raw_humidity
    ELSE f32_clamp(f32_add(raw_humidity, self.humidity_offset), f32_zero, f32_from(100))

(***************************************************************************)
(* read_ens160 (sensor.rs): three samples, their medians, and the air      *)
(* quality index of the sample closest to the CO2 median.                  *)
(***************************************************************************)
\* values the ENS160 can deliver
Ens160Co2 == {650, 700, 900}
Ens160Etoh == {10, 30}
AirQualityIndex == {"Excellent", "Good", "Moderate"}
Ens160Samples ==
    [co2 : Ens160Co2, etoh : Ens160Etoh, air_quality_index : AirQualityIndex]

\* MovingMedian<f32, N>: a window of the last N values
MovingMedian_new == << >>

MovingMedian_add_value(window, value) ==
    IF Len(window) >= ENS160_MEDIAN_READINGS
    THEN Append(Tail(window), value)
    ELSE Append(window, value)

\* the values of window in ascending order
RECURSIVE SortedInsert(_, _)
SortedInsert(sorted, value) ==
    IF sorted = << >> \/ value <= Head(sorted)
    THEN <<value>> \o sorted
    ELSE <<Head(sorted)>> \o SortedInsert(Tail(sorted), value)

RECURSIVE Sorted(_)
Sorted(window) ==
    IF window = << >> THEN << >> ELSE SortedInsert(Sorted(Tail(window)), Head(window))

MovingMedian_median(window) == Sorted(window)[(Len(window) + 1) \div 2]

Abs(x) == IF x < 0 THEN -x ELSE x

\* Iterator::min_by over the pairs: a later pair replaces the best so far
\* only when it compares strictly less
RECURSIVE min_by_from(_, _, _)
min_by_from(best, pairs, median_co2) ==
    IF pairs = << >>
    THEN best
    ELSE LET diff_a == Abs(best[1] - median_co2)
             diff_b == Abs(Head(pairs)[1] - median_co2)
         IN  min_by_from(IF diff_b < diff_a THEN Head(pairs) ELSE best,
                         Tail(pairs), median_co2)

\* mutation: a later pair replaces the best so far also when it compares equal
RECURSIVE min_by_last_from(_, _, _)
min_by_last_from(best, pairs, median_co2) ==
    IF pairs = << >>
    THEN best
    ELSE LET diff_a == Abs(best[1] - median_co2)
             diff_b == Abs(Head(pairs)[1] - median_co2)
         IN  min_by_last_from(IF diff_b <= diff_a THEN Head(pairs) ELSE best,
                              Tail(pairs), median_co2)

\* mutation: the last of the equally close pairs is selected
min_by_last(pairs, median_co2) == min_by_last_from(Head(pairs), Tail(pairs), median_co2)

min_by(pairs, median_co2) == min_by_from(Head(pairs), Tail(pairs), median_co2)

\* the locals of read_ens160 before the first reading
Ens160Call_new ==
    [co2_median |-> MovingMedian_new,
     etoh_median |-> MovingMedian_new,
     co2_aqi_pairs |-> << >>]

\* the caller has taken the readings and read_ens160 is entered again:
\* fresh filters and an empty pair list
Ens160Begin ==
    /\ IsSome(ens160_readings)
    /\ ens160_call' = Ens160Call_new
    /\ ens160_readings' = None
    /\ UNCHANGED <<now, healthVars, ghostVars, channelVars, system_state,
                   sensorVars, vsysVars, ms_wake, orchVars, displayVars, produced, calibVars, iterVars, extraVars>>

\* one pass of the loop: the reading is added to both filters and the pair list
Ens160Sample ==
    /\ Len(ens160_call.co2_aqi_pairs) < ENS160_MEDIAN_READINGS
    /\ \E sample \in Ens160Samples :
          ens160_call' =
              [co2_median |-> MovingMedian_add_value(ens160_call.co2_median, sample.co2),
               etoh_median |-> MovingMedian_add_value(ens160_call.etoh_median, sample.etoh),
               co2_aqi_pairs |-> Append(ens160_call.co2_aqi_pairs,
                                        <<sample.co2, sample.air_quality_index>>)]
    /\ UNCHANGED <<ens160_readings, now, healthVars, ghostVars, channelVars, system_state,
                   sensorVars, vsysVars, ms_wake, orchVars, displayVars, produced, calibVars, iterVars, extraVars>>

\* after the loop: the medians and the selected air quality index are returned
Ens160Return ==
    /\ Len(ens160_call.co2_aqi_pairs) = ENS160_MEDIAN_READINGS
    /\ ens160_readings = None
    /\ LET median_co2 == MovingMedian_median(ens160_call.co2_median)
           air_quality == min_by(ens160_call.co2_aqi_pairs, median_co2)[2]
       IN  ens160_readings' =
               Some([co2 |-> median_co2,
                     etoh |-> MovingMedian_median(ens160_call.etoh_median),
                     air_quality |-> air_quality])
    /\ UNCHANGED <<ens160_call, now, healthVars, ghostVars, channelVars, system_state,
                   sensorVars, vsysVars, ms_wake, orchVars, displayVars, produced, calibVars, iterVars, extraVars>>

(***************************************************************************)
(* The clock of the whole program.                                         *)
(***************************************************************************)
Advance ==
    /\ ~WatchdogDue
    /\ ~SensorReady
    /\ ~VsysReady
    /\ ~ModeSwitchReady
    /\ ~OrchReady
    /\ ~DisplayReady
    /\ TimePasses
    /\ UNCHANGED <<healthVars, ghostVars, taskVars>>

(***************************************************************************)
(* sensor_task (sensor.rs) in detail, from its loop on: one step per       *)
(* awaited operation of handle_sensor_iteration, read_aht21,               *)
(* set_ens160_compensation and read_ens160.  sensor_task holds the         *)
(* position and the locals; io_log lists the operations of the current     *)
(* cycle with their results.                                               *)
(***************************************************************************)
\* the locals as the loop is entered: initialization and warmup are over
SensorTask_new ==
    [pc |-> "loop",
     prev_temp |-> f32_from(25),
     prev_humidity |-> f32_from(50),
     humidity_calibrator |-> StatCalibrator_new,
     runtime_hours |-> 0,
     aht21_result |-> None,
     i |-> 0,
     call |-> Ens160Call_new,
     eco2 |-> 0,
     etoh |-> 0,
     ens160_result |-> None,
     success |-> FALSE]

Init ==
    /\ now = 0
    /\ health = SystemHealth_new
    /\ wd_pc = "sleep"
    /\ wd_wake = 0
    /\ hw_watchdog = "off"
    /\ unhealthy_since = 0
    /\ sensor_reported_at = 0
    /\ reported = [t \in TaskId |-> FALSE]
    /\ io_failed = FALSE
    /\ produced = << >>
    /\ ens160_call = Ens160Call_new
    /\ ens160_readings = None
    /\ humidity_calibrator = HumidityCalibrator_new
    /\ calibrated = None
    /\ fed = [count |-> 0, raw |-> 0, prev |-> 0, temperature |-> 0, history |-> << >>,
              run |-> 0, increasing |-> TRUE, stable |-> 0, calm |-> 0,
              confirming |-> 0]
    /\ sensor_task = SensorTask_new
    /\ io_log = << >>
    /\ last_report = None
    /\ expected_call = None
    /\ running = "idle"
    /\ lock_pc = [Sensor |-> "op", Display |-> "op", Orchestrator |-> "receive",
                  ModeSwitch |-> "timer", Watchdog |-> "lock_health"]
    /\ sensor_run = [op |-> 1, ok |-> TRUE, failed |-> FALSE]
    /\ display_run = [op |-> "init", section |-> 1, sensor_data |-> None, failed |-> FALSE]
    /\ i2c_bus_owner = "free"
    /\ system_state_owner = "free"
    /\ system_health_owner = "free"
    /\ drawn = [command |-> None, reads |-> << >>]
    /\ event_channel = << >>
    /\ display_channel = << >>
    /\ system_state = SystemState_new
    /\ sensor_pc = "init"
    /\ sensor_wake = 0
    /\ sensor_i = 0
    /\ aht_ok = FALSE
    /\ cycle = [failed |-> FALSE, sent |-> 0, reports |-> 0]
    /\ vsys_pc = "sleep"
    /\ vsys_wake = INTERVAL
    /\ vsys_reading = None
    /\ prev_charging_state = None
    /\ prev_battery_percentage = None
    /\ ms_wake = TOGGLE_MODE
    /\ orch_pc = "recv"
    /\ orch_event = None
    /\ orch_cmd = None
    /\ display_pc = "init"
    /\ display_cmd = None

Next ==
    \/ SensorInit
    \/ SensorStartCycle
    \/ SensorReading
    \/ SensorHang
    \/ SensorSend
    \/ VsysMeasure
    \/ VsysSend
    \/ ModeSwitchSend
    \/ OrchReceive
    \/ OrchSend
    \/ DisplayInit
    \/ DisplayReceive
    \/ DisplayFlush
    \/ WatchdogTick
    \/ Advance

Spec == Init /\ [][Next]_vars

\* The executor polls every task that is ready to run, and time passes.
SensorStep == SensorInit \/ SensorStartCycle \/ SensorReading \/ SensorHang \/ SensorSend
VsysStep == VsysMeasure \/ VsysSend
OrchStep == OrchReceive \/ OrchSend
DisplayStep == DisplayInit \/ DisplayReceive \/ DisplayFlush

FairSpec ==
    /\ Spec
    /\ WF_vars(SensorStep)
    /\ WF_vars(VsysStep)
    /\ WF_vars(ModeSwitchSend)
    /\ WF_vars(OrchStep)
    /\ WF_vars(DisplayStep)
    /\ WF_vars(WatchdogTick)
    /\ WF_vars(Advance)

NextHealth ==
    \/ CallReportSuccess
    \/ CallReportFailure
    \/ WatchdogTick
    \/ HealthAdvance

SpecHealth == Init /\ [][NextHealth]_vars

\* read_ens160 called again and again with any samples
MaxCycles == 4
Aht21Temperatures == {22}
Aht21Humidities == {40, 60}
IterCo2 == {700}
IterEtoh == {10}
IterAqi == {"Good"}

Ok(value) == [ok |-> TRUE, value |-> value]
Err == [ok |-> FALSE]

\* a step inside the sensor task that touches nothing outside it
IterStep(task, log) ==
    /\ sensor_task' = task
    /\ io_log' = log
    /\ UNCHANGED <<now, healthVars, ghostVars, channelVars, system_state, sensorVars,
                   vsysVars, ms_wake, orchVars, displayVars, produced, ensVars, calibVars,
                   extraVars>>
\* read_aht21 after a successful aht21.read(): the readings, given the
\* calibrator that add_measurement has updated
Aht21Readings(calibrator, raw_temp, raw_rh) ==
    [humidity_calibrator |-> calibrator,
     readings |-> [raw_temperature |-> raw_temp,
                   display_temperature |-> f32_add(raw_temp, AHT21_TEMPERATURE_OFFSET),
                   raw_humidity |-> raw_rh,
                   calibrated_humidity |->
                       stat_calibrate_humidity(calibrator, raw_temp, raw_rh)]]

\* read_aht21 after a successful aht21.read(): add_measurement, then
\* calibrate_humidity
read_aht21(calibrator, raw_temp, raw_rh) ==
    Aht21Readings(stat_add_measurement(calibrator, raw_temp, raw_rh),
                  raw_temp, raw_rh)

\* mutation: a failed AHT21 read puts the defaults back into prev_temp and prev_humidity
IterReadAht21_forgets_prev ==
    /\ sensor_task.pc = "loop"
    /\ sensor_task.runtime_hours < MaxCycles
    /\ LET hours == sensor_task.runtime_hours + 1
           started == [sensor_task EXCEPT
                          !.runtime_hours = hours,
                          !.humidity_calibrator = update_runtime(@, hours),
                          !.ens160_result = None,
                          !.pc = "compensate"]
       IN  \/ IterStep([started EXCEPT !.aht21_result = Err,
                                        !.prev_temp = f32_from(25),
                                        !.prev_humidity = f32_from(50)],
                       <<[op |-> "aht21.read", ok |-> FALSE]>>)
           \/ \E temp \in Aht21Temperatures, hum \in Aht21Humidities :
                 \E read \in {read_aht21(started.humidity_calibrator,
                                         f32_from(temp), f32_from(hum))} :
                    IterStep([started EXCEPT
                                 !.humidity_calibrator = read.humidity_calibrator,
                                 !.aht21_result = Ok(read.readings),
                                 !.prev_temp = read.readings.raw_temperature,
                                 !.prev_humidity = read.readings.calibrated_humidity],
                             <<[op |-> "aht21.read", ok |-> TRUE]>>)

\* the top of the loop and read_aht21: the runtime counter, the AHT21
\* measurement, add_measurement and calibrate_humidity, and the update of
\* prev_temp and prev_humidity
IterReadAht21 ==
    /\ sensor_task.pc = "loop"
    /\ sensor_task.runtime_hours < MaxCycles
    /\ LET hours == sensor_task.runtime_hours + 1
           started == [sensor_task EXCEPT
                          !.runtime_hours = hours,
                          !.humidity_calibrator = update_runtime(@, hours),
                          !.ens160_result = None,
                          !.pc = "compensate"]
       IN  \/ IterStep([started EXCEPT !.aht21_result = Err],
                       <<[op |-> "aht21.read", ok |-> FALSE]>>)
           \/ \E temp \in Aht21Temperatures, hum \in Aht21Humidities :
                 \E read \in {read_aht21(started.humidity_calibrator,
                                         f32_from(temp), f32_from(hum))} :
                    IterStep([started EXCEPT
                                 !.humidity_calibrator = read.humidity_calibrator,
                                 !.aht21_result = Ok(read.readings),
                                 !.prev_temp = read.readings.raw_temperature,
                                 !.prev_humidity = read.readings.calibrated_humidity],
                             <<[op |-> "aht21.read", ok |-> TRUE]>>)

\* mutation: a failed compensation write is logged and the acquisition runs all the same
IterSetCompensation_goes_on ==
    /\ sensor_task.pc = "compensate"
    /\ \E ok \in BOOLEAN :
          IterStep(IF TRUE
                   THEN [sensor_task EXCEPT !.pc = "wait_for_low",
                                            !.i = 0,
                                            !.call = Ens160Call_new]
                   ELSE [sensor_task EXCEPT !.pc = "report", !.success = FALSE],
                   Append(io_log, [op |-> "set_temp_rh_comp", ok |-> ok,
                                   temp |-> sensor_task.prev_temp,
                                   rh |-> f32_as_u16(sensor_task.prev_humidity)]))

\* set_ens160_compensation with prev_temp and prev_humidity
IterSetCompensation ==
    /\ sensor_task.pc = "compensate"
    /\ \E ok \in BOOLEAN :
          IterStep(IF ok
                   THEN [sensor_task EXCEPT !.pc = "wait_for_low",
                                            !.i = 0,
                                            !.call = Ens160Call_new]
                   ELSE [sensor_task EXCEPT !.pc = "report", !.success = FALSE],
                   Append(io_log, [op |-> "set_temp_rh_comp", ok |-> ok,
                                   temp |-> sensor_task.prev_temp,
                                   rh |-> f32_as_u16(sensor_task.prev_humidity)]))

\* read_ens160: int.wait_for_low returns
IterWaitForLow ==
    /\ sensor_task.pc = "wait_for_low"
    /\ IterStep([sensor_task EXCEPT !.pc = "get_status"],
                Append(io_log, [op |-> "wait_for_low", ok |-> TRUE]))

\* read_ens160: one read of the sample; an error ends read_ens160
IterRead(op, next, field, values) ==
    /\ sensor_task.pc = op
    /\ \/ IterStep([sensor_task EXCEPT !.pc = "process", !.ens160_result = Err],
                   Append(io_log, [op |-> op, ok |-> FALSE]))
       \/ \E value \in values :
             IterStep([sensor_task EXCEPT !.pc = next, ![field] = value],
                      Append(io_log, [op |-> op, ok |-> TRUE]))

IterGetStatus == IterRead("get_status", "get_eco2", "i", {sensor_task.i})

IterGetEco2 == IterRead("get_eco2", "get_etoh", "eco2", IterCo2)

IterGetEtoh == IterRead("get_etoh", "get_airquality_index", "etoh", IterEtoh)

\* mutation: after a sample the next one starts at the status read, without a wait for the data-ready line
IterGetAirQualityIndex_waits_once ==
    /\ sensor_task.pc = "get_airquality_index"
    /\ \/ IterStep([sensor_task EXCEPT !.pc = "process", !.ens160_result = Err],
                   Append(io_log, [op |-> "get_airquality_index", ok |-> FALSE]))
       \/ \E aq \in IterAqi :
             LET call == [co2_median |->
                              MovingMedian_add_value(sensor_task.call.co2_median,
                                                     sensor_task.eco2),
                          etoh_median |->
                              MovingMedian_add_value(sensor_task.call.etoh_median,
                                                     sensor_task.etoh),
                          co2_aqi_pairs |->
                              Append(sensor_task.call.co2_aqi_pairs, <<sensor_task.eco2, aq>>)]
                 median_co2 == MovingMedian_median(call.co2_median)
                 readings == [co2 |-> median_co2,
                              etoh |-> MovingMedian_median(call.etoh_median),
                              air_quality |-> min_by(call.co2_aqi_pairs, median_co2)[2]]
             IN  IterStep(IF sensor_task.i + 1 < ENS160_MEDIAN_READINGS
                          THEN [sensor_task EXCEPT !.pc = "get_status",
                                                   !.i = @ + 1,
                                                   !.call = call]
                          ELSE [sensor_task EXCEPT !.pc = "process",
                                                   !.i = @ + 1,
                                                   !.call = call,
                                                   !.ens160_result = Ok(readings)],
                          Append(io_log, [op |-> "get_airquality_index", ok |-> TRUE]))

\* read_ens160: the last read of the sample, the filters and the pair list;
\* after the third sample the medians and the selected index are returned
IterGetAirQualityIndex ==
    /\ sensor_task.pc = "get_airquality_index"
    /\ \/ IterStep([sensor_task EXCEPT !.pc = "process", !.ens160_result = Err],
                   Append(io_log, [op |-> "get_airquality_index", ok |-> FALSE]))
       \/ \E aq \in IterAqi :
             LET call == [co2_median |->
                              MovingMedian_add_value(sensor_task.call.co2_median,
                                                     sensor_task.eco2),
                          etoh_median |->
                              MovingMedian_add_value(sensor_task.call.etoh_median,
                                                     sensor_task.etoh),
                          co2_aqi_pairs |->
                              Append(sensor_task.call.co2_aqi_pairs, <<sensor_task.eco2, aq>>)]
                 median_co2 == MovingMedian_median(call.co2_median)
                 readings == [co2 |-> median_co2,
                              etoh |-> MovingMedian_median(call.etoh_median),
                              air_quality |-> min_by(call.co2_aqi_pairs, median_co2)[2]]
             IN  IterStep(IF sensor_task.i + 1 < ENS160_MEDIAN_READINGS
                          THEN [sensor_task EXCEPT !.pc = "wait_for_low",
                                                   !.i = @ + 1,
                                                   !.call = call]
                          ELSE [sensor_task EXCEPT !.pc = "process",
                                                   !.i = @ + 1,
                                                   !.call = call,
                                                   !.ens160_result = Ok(readings)],
                          Append(io_log, [op |-> "get_airquality_index", ok |-> TRUE]))

\* handle_sensor_iteration: the match on both results; send_event waits for
\* room in the channel
IterProcess ==
    /\ sensor_task.pc = "process"
    /\ IF sensor_task.ens160_result.ok /\ sensor_task.aht21_result.ok
       THEN /\ EventChannelHasRoom
            /\ event_channel' =
                   Append(event_channel,
                          SensorDataEvent(sensor_task.ens160_result.value.co2))
            /\ sensor_task' = [sensor_task EXCEPT !.pc = "report", !.success = TRUE]
            /\ io_log' = Append(io_log, [op |-> "send_event", ok |-> TRUE])
       ELSE /\ event_channel' = event_channel
            /\ sensor_task' = [sensor_task EXCEPT !.pc = "report", !.success = FALSE]
            /\ io_log' = io_log
    /\ UNCHANGED <<now, healthVars, ghostVars, display_channel, system_state, sensorVars,
                   vsysVars, ms_wake, orchVars, displayVars, produced, ensVars, calibVars,
                   extraVars>>

\* sensor_task: the report of the iteration's result
IterReport ==
    /\ sensor_task.pc = "report"
    /\ Report("Sensor", sensor_task.success)
    /\ sensor_task' = [sensor_task EXCEPT !.pc = "sleep"]
    /\ io_log' = Append(io_log, [op |-> IF sensor_task.success
                                        THEN "report_task_success"
                                        ELSE "report_task_failure",
                                 ok |-> TRUE])
    /\ UNCHANGED <<now, watchdogVars, io_failed, channelVars, system_state, sensorVars,
                   vsysVars, ms_wake, orchVars, displayVars, produced, ensVars, calibVars,
                   extraVars>>

\* sensor_task: Timer::after_secs(READ_INTERVAL) has elapsed
IterSleep ==
    /\ sensor_task.pc = "sleep"
    /\ IterStep([sensor_task EXCEPT !.pc = "loop"], io_log)

NextIter ==
    \/ IterReadAht21
    \/ IterSetCompensation
    \/ IterWaitForLow
    \/ IterGetStatus
    \/ IterGetEco2
    \/ IterGetEtoh
    \/ IterGetAirQualityIndex
    \/ IterProcess
    \/ IterReport
    \/ IterSleep

SpecIter == Init /\ [][NextIter]_vars

NextEns ==
    \/ Ens160Begin
    \/ Ens160Sample
    \/ Ens160Return

SpecEns == Init /\ [][NextEns]_vars

(***************************************************************************)
(* Claims about the health supervisor.                                     *)
(***************************************************************************)
AllFlagsHealthy == \A t \in TaskId : health.tasks[t]
AbsorbWindow == COUNTDOWN_TIMEOUT - HEALTH_CHECK_INTERVAL
WatchdogStep == CallReportSuccess \/ CallReportFailure \/ WatchdogTick

\* C1: while the Vsys flag stays unhealthy (whatever the other four flags
\* are, so in particular with Sensor, Display, Orchestrator and ModeSwitch
\* healthy), the first report or tick arms the deadline at now + 900 s, no
\* later report or tick changes it, and should_trigger_reset(), once true,
\* stays true.
C1_DeadlineArmedOnce ==
    [][(~health.tasks["Vsys"] /\ ~health'.tasks["Vsys"]) =>
          /\ IsSome(health.countdown_deadline) =>
                health'.countdown_deadline = health.countdown_deadline
          /\ (health.countdown_deadline = None /\ WatchdogStep) =>
                health'.countdown_deadline = Some(now + COUNTDOWN_TIMEOUT)
          /\ should_trigger_reset(health, now) => should_trigger_reset(health', now')
      ]_vars

C1_Witness ==
    /\ health.tasks = [t \in TaskId |-> t # "Vsys"]
    /\ should_trigger_reset(health, now)
    /\ Unwrap(health.countdown_deadline) = COUNTDOWN_TIMEOUT
    /\ wd_pc = "reset_wait"

\* C2: a watchdog tick that finds all five task flags healthy leaves
\* should_trigger_reset() false and does not start the hardware watchdog,
\* however many ticks have gone before.
C2_AllHealthyNeverResets ==
    [][(WatchdogTick /\ AllFlagsHealthy) =>
          /\ ~should_trigger_reset(health', now')
          /\ wd_pc' = "sleep"
          /\ hw_watchdog' = "off"
      ]_vars

C2_Witness ==
    /\ AllFlagsHealthy
    /\ unhealthy_since = 0
    /\ now >= COUNTDOWN_TIMEOUT + HEALTH_CHECK_INTERVAL
    /\ wd_pc = "sleep" /\ wd_wake > now
    /\ hw_watchdog = "off"
    /\ ~should_trigger_reset(health, now)

\* C5 (as claimed): when the Sensor flag is healthy, the sensor task has made
\* no report for a whole countdown window plus one health check interval and
\* the other four flags are healthy, the hardware watchdog has been started.
C5_StuckSensorIsReset ==
    (/\ AllFlagsHealthy
     /\ now - sensor_reported_at >= COUNTDOWN_TIMEOUT + HEALTH_CHECK_INTERVAL
     /\ ~WatchdogDue)
        => hw_watchdog = "started"

\* C6: during the first 720 s (COUNTDOWN_TIMEOUT - HEALTH_CHECK_INTERVAL)
\* after the flags stopped being all healthy no step starts the hardware
\* watchdog, and the report that makes them all healthy again within that
\* time re-arms the deadline to a full window from now.
C6_TransientFailureAbsorbed ==
    [][(wd_pc = "sleep" /\ now - unhealthy_since < AbsorbWindow) =>
          /\ wd_pc' = "sleep"
          /\ hw_watchdog' = "off"
          /\ (~health.all_healthy /\ health'.all_healthy) =>
                health'.countdown_deadline = Some(now + COUNTDOWN_TIMEOUT)
      ]_vars

C6_Witness ==
    /\ health.all_healthy
    /\ unhealthy_since >= COUNTDOWN_TIMEOUT
    /\ now > unhealthy_since
    /\ now - unhealthy_since < AbsorbWindow
    /\ health.countdown_deadline = Some(now + COUNTDOWN_TIMEOUT)
    /\ hw_watchdog = "off"

\* C7 (as claimed): when watchdog_task starts the hardware watchdog, the
\* flags have not been all healthy for at least COUNTDOWN_TIMEOUT.
C7_UnhealthyForWholeWindow ==
    [][(wd_pc = "sleep" /\ wd_pc' = "reset_wait") =>
          now - unhealthy_since >= COUNTDOWN_TIMEOUT]_vars

\* C7 (amended): when watchdog_task starts the hardware watchdog, the
\* deadline has passed, the flags are not all healthy and have not been for
\* at least COUNTDOWN_TIMEOUT - HEALTH_CHECK_INTERVAL.
C7_UnhealthySinceLastFeed ==
    [][(wd_pc = "sleep" /\ wd_pc' = "reset_wait") =>
          /\ ~health'.all_healthy
          /\ should_trigger_reset(health', now)
          /\ now - unhealthy_since >= AbsorbWindow
      ]_vars

C7_Witness ==
    /\ wd_pc = "reset_wait"
    /\ hw_watchdog = "started"
    /\ unhealthy_since > 0
    /\ now - unhealthy_since = AbsorbWindow

\* C9: a second report_task_success(t) or report_task_failure(t) at the same
\* instant leaves SystemHealth as the first one left it.
C9_ReportsIdempotent ==
    \A t \in TaskId :
        LET s1 == set_task_succeeded(health, t, now)
            f1 == set_task_failed(health, t, now)
        IN  /\ set_task_succeeded(s1, t, now) = s1
            /\ set_task_failed(f1, t, now) = f1

C9_Witness ==
    /\ now > 0
    /\ \E t \in TaskId :
          /\ set_task_succeeded(health, t, now) # health
          /\ set_task_succeeded(health, t, now).all_healthy
          /\ set_task_failed(set_task_succeeded(health, t, now), t, now) = health

(***************************************************************************)
(* Claims about the tasks of the program.                                  *)
(***************************************************************************)
\* C3 (as claimed): the hardware watchdog is started only after some sensor,
\* ADC or display operation has failed.
C3_ResetOnlyAfterFailure ==
    hw_watchdog = "started" => io_failed

\* the step that completes one iteration of the main loop of task t
IterationEnds(t) ==
    CASE t = "Sensor" -> sensor_pc' = "sleep" /\ sensor_wake' # sensor_wake
      [] t = "Vsys" -> vsys_pc' = "sleep" /\ vsys_wake' # vsys_wake
      [] t = "ModeSwitch" -> ms_wake' # ms_wake
      [] t = "Orchestrator" -> \/ (orch_pc' = "recv" /\ event_channel' # event_channel)
                               \/ (orch_pc = "send" /\ orch_pc' = "recv")
      [] t = "Display" -> display_pc = "flush" /\ display_pc' = "wait"

\* C4 (as claimed): every task has reported success or failure for its own
\* TaskId by the time an iteration of its main loop completes.
C4_EveryIterationReports ==
    [][\A t \in TaskId : IterationEnds(t) => reported'[t]]_vars

SensorDataInFlight ==
    \/ \E i \in 1..Len(event_channel) : event_channel[i].type = "SensorData"
    \/ \E i \in 1..Len(display_channel) : display_channel[i].type = "SensorData"
    \/ IsSome(orch_cmd) /\ Unwrap(orch_cmd).type = "SensorData"
    \/ IsSome(display_cmd) /\ Unwrap(display_cmd).type = "SensorData"

\* C8: after a failed sensor initialization the Sensor flag is unhealthy and
\* was reported, the sensor task takes no further step, no SensorData event
\* or command exists and none was ever processed, and the hardware watchdog
\* is eventually started.
C8_InitFailureLeadsToReset ==
    /\ [](sensor_pc = "returned" =>
            /\ ~health.tasks["Sensor"]
            /\ reported["Sensor"]
            /\ ~SensorDataInFlight
            /\ system_state.last_sensor_data = None
            /\ system_state.co2_history = << >>)
    /\ [][sensor_pc = "returned" =>
            /\ sensor_pc' = "returned"
            /\ health'.tasks["Sensor"] = health.tasks["Sensor"]]_vars
    /\ (sensor_pc = "returned" ~> hw_watchdog = "started")

C8_Witness ==
    /\ sensor_pc = "returned"
    /\ display_pc # "returned"
    /\ now >= COUNTDOWN_TIMEOUT
    /\ wd_pc = "reset_wait"
    /\ hw_watchdog = "started"

ToggleModeInFlight ==
    \/ orch_cmd = Some(ToggleModeCommand)
    \/ \E i \in 1..Len(display_channel) : display_channel[i] = ToggleModeCommand
    \/ display_cmd = Some(ToggleModeCommand)

FirstSensorDataCommandPending ==
    /\ orch_pc = "send"
    /\ Unwrap(orch_cmd).type = "SensorData"
    /\ Len(system_state.co2_history) = 1

\* C10: a ToggleDisplayMode event received while no sensor data is stored
\* changes nothing in SystemState and sends no command; one received after
\* sensor data sends exactly one ToggleMode and flips the stored mode; no
\* ToggleMode exists before the first SensorData command was sent, and
\* last_sensor_data is never cleared.
C10_ToggleNeedsSensorData ==
    /\ [][(OrchReceive /\ Head(event_channel) = ToggleDisplayModeEvent) =>
            IF system_state.last_sensor_data = None
            THEN /\ system_state' = system_state
                 /\ display_channel' = display_channel
                 /\ orch_cmd' = None
                 /\ orch_pc' = "recv"
            ELSE /\ system_state'.display_mode # system_state.display_mode
                 /\ system_state'.display_mode \in {"RawData", "Co2History"}
                 /\ system_state' = [system_state EXCEPT
                                        !.display_mode = system_state'.display_mode]
                 /\ display_channel' = display_channel
                 /\ orch_cmd' = Some(ToggleModeCommand)
                 /\ orch_pc' = "send"]_vars
    /\ [][(orch_cmd = Some(ToggleModeCommand) /\ orch_cmd' # orch_cmd) =>
            /\ display_channel' = Append(display_channel, ToggleModeCommand)
            /\ system_state' = system_state
            /\ orch_cmd' = None]_vars
    /\ [](ToggleModeInFlight =>
            /\ IsSome(system_state.last_sensor_data)
            /\ ~FirstSensorDataCommandPending)
    /\ [][IsSome(system_state.last_sensor_data) =>
            IsSome(system_state'.last_sensor_data)]_vars

C10_Witness ==
    /\ display_cmd = Some(ToggleModeCommand)
    /\ system_state.display_mode = "RawData"
    /\ Len(system_state.co2_history) = 1
    /\ now > WARMUP_TIME

(***************************************************************************)
(* Claims about the acquisition cycle of sensor_task.                      *)
(***************************************************************************)
CycleInProgress == sensor_pc \in {"wait_int", "hung", "send"}
CycleComplete == sensor_pc = "sleep"

SensorDataAppended ==
    /\ Len(event_channel') = Len(event_channel) + 1
    /\ event_channel'[Len(event_channel')].type = "SensorData"

\* C15: a cycle sends at most one SensorData event and makes at most one
\* report; a completed cycle has made exactly one report, has sent the
\* event iff no operation of the cycle failed (all three ENS160 readings
\* taken), and reported success iff it sent the event.
C15_OneEventOneReportPerCycle ==
    /\ [](cycle.sent <= 1 /\ cycle.reports <= 1)
    /\ [](CycleInProgress => cycle.sent = 0 /\ cycle.reports = 0)
    /\ [](CycleComplete =>
            /\ cycle.reports = 1
            /\ (cycle.sent = 1 <=> ~cycle.failed)
            /\ (health.tasks["Sensor"] <=> cycle.sent = 1))
    /\ [](sensor_pc = "send" =>
            aht_ok /\ ~cycle.failed /\ sensor_i = ENS160_MEDIAN_READINGS - 1)
    /\ [][SensorDataAppended =>
            /\ sensor_pc = "send"
            /\ cycle'.sent = cycle.sent + 1
            /\ cycle'.reports = cycle.reports + 1
            /\ health'.tasks["Sensor"]]_vars
    /\ [][(health'.tasks["Sensor"] # health.tasks["Sensor"]
            \/ sensor_reported_at' # sensor_reported_at) =>
            \/ sensor_pc = "init"
            \/ cycle'.reports = 1 /\ sensor_pc' = "sleep"]_vars

C15_Witness ==
    /\ CycleComplete
    /\ cycle.failed
    /\ cycle.sent = 0
    /\ ~health.tasks["Sensor"]
    /\ Len(system_state.co2_history) = 1

(***************************************************************************)
(* The event bus and the orchestrator with free producers: any task        *)
(* context may call send_event with any event at any moment.  The          *)
(* orchestrator and the display task run as in the program.                *)
(***************************************************************************)
MaxProduced == 4
MaxBurst == 11
MaxBus == 11

\* battery percentages the free producers pass
ProducedLevels == {20, 80}

OrchEvents ==
    {SensorDataEvent(c) : c \in CO2Values}
        \cup {BatteryLevelEvent(p) : p \in ProducedLevels}
        \cup {BatteryChargingEvent, ToggleDisplayModeEvent}

BurstEvents == {SensorDataEvent(c) : c \in CO2Values}

\* mutation: a send on a full channel overwrites the oldest event
send_event_overwrites(events, limit) ==
    /\ Len(produced) < limit
    /\ \E event \in events :
          /\ event_channel' = Append(IF EventChannelHasRoom THEN event_channel
                                     ELSE Tail(event_channel), event)
          /\ produced' = Append(produced, event)
    /\ UNCHANGED <<now, healthVars, ghostVars, display_channel, system_state, sensorVars,
                   vsysVars, ms_wake, orchVars, displayVars, ensVars, calibVars, iterVars, extraVars>>

\* send_event(event) from a free producer: completes when the channel has room
send_event(events, limit) ==
    /\ Len(produced) < limit
    /\ EventChannelHasRoom
    /\ \E event \in events :
          /\ event_channel' = Append(event_channel, event)
          /\ produced' = Append(produced, event)
    /\ UNCHANGED <<now, healthVars, ghostVars, display_channel, system_state, sensorVars,
                   vsysVars, ms_wake, orchVars, displayVars, ensVars, calibVars, iterVars, extraVars>>

ProduceEvent == send_event(OrchEvents, MaxProduced)

ProduceBurst == send_event(BurstEvents, MaxBurst)

NextOrch ==
    \/ ProduceEvent
    \/ OrchReceive
    \/ OrchSend
    \/ DisplayInit
    \/ DisplayReceive
    \/ DisplayFlush

SpecOrch == Init /\ [][NextOrch]_vars

NextBurst ==
    \/ ProduceBurst
    \/ OrchReceive
    \/ OrchSend
    \/ DisplayInit
    \/ DisplayReceive
    \/ DisplayFlush

SpecBurst == Init /\ [][NextBurst]_vars

\* A producer that numbers its events: the k-th event accepted is
\* BatteryLevel(k), so every event in flight is distinguishable.
ProduceNumbered == send_event({BatteryLevelEvent(Len(produced) + 1)}, MaxBus)

NextBus ==
    \/ ProduceNumbered
    \/ OrchReceive
    \/ OrchSend
    \/ DisplayInit
    \/ DisplayReceive
    \/ DisplayFlush

SpecBus == Init /\ [][NextBus]_vars

\* The executor polls the orchestrator and the display task when ready.
FairBus ==
    /\ SpecBus
    /\ WF_vars(OrchStep)
    /\ WF_vars(DisplayStep)

(***************************************************************************)
(* Claims about the event bus and the orchestrator.                        *)
(***************************************************************************)
\* the number of produced events the orchestrator has received
Received == Len(produced) - Len(event_channel)
ReceivedEvents == SubSeq(produced, 1, Received)

RECURSIVE CommandsFrom(_, _)
\* the commands process_event yields for the events of log, starting in st
CommandsFrom(st, log) ==
    IF log = << >>
    THEN << >>
    ELSE LET command == process_event_command(st, Head(log))
         IN  (IF IsSome(command) THEN <<Unwrap(command)>> ELSE << >>)
                 \o CommandsFrom(process_event_state(st, Head(log)), Tail(log))

\* the commands caused by the received events that were put on the display channel
CommandsSent ==
    LET caused == CommandsFrom(SystemState_new, ReceivedEvents)
    IN  IF orch_pc = "send" THEN SubSeq(caused, 1, Len(caused) - 1) ELSE caused

IsSuffix(s, t) == Len(s) <= Len(t) /\ s = SubSeq(t, Len(t) - Len(s) + 1, Len(t))

\* C11: events are received in the order the channel accepted them, one at
\* a time (no event is received while a command is still being sent), and
\* the commands on the display channel are, in order, those the received
\* events caused.
C11_FifoProcessing ==
    /\ [](Received >= 0 /\ IsSuffix(event_channel, produced))
    /\ [][Len(event_channel') < Len(event_channel) =>
            /\ orch_pc = "recv"
            /\ event_channel' = Tail(event_channel)
            /\ system_state' = process_event_state(system_state, Head(event_channel))
            /\ (orch_pc' = "send" => orch_event' = Some(Head(event_channel)))]_vars
    /\ [](orch_pc = "send" =>
            /\ orch_event = Some(produced[Received])
            /\ orch_cmd = process_event_command(system_state, Unwrap(orch_event)))
    /\ [][orch_pc = "send" =>
            /\ Len(event_channel') >= Len(event_channel)
            /\ system_state' = system_state
            /\ (orch_pc' = "recv" =>
                   display_channel' = Append(display_channel, Unwrap(orch_cmd)))]_vars
    /\ [](IsSuffix(display_channel, CommandsSent))
    /\ [](IsSome(display_cmd) =>
            /\ Len(CommandsSent) > Len(display_channel)
            /\ Unwrap(display_cmd) = CommandsSent[Len(CommandsSent) - Len(display_channel)])

C11_Witness ==
    /\ Len(produced) = MaxProduced
    /\ produced[1] = SensorDataEvent(900)
    /\ produced[2] = ToggleDisplayModeEvent
    /\ produced[3] = BatteryChargingEvent
    /\ display_channel = <<ToggleModeCommand, UpdateBatteryChargingCommand>>
    /\ display_cmd = Some(SensorDataCommand(900))
    /\ orch_pc = "send"

EventChannelFull == Len(event_channel) = EVENT_CHANNEL_CAPACITY

\* C12: the event channel never holds more than 10 events; while it is full
\* no send completes and nothing in it is replaced; the channel is always
\* the accepted events not yet received, so none is discarded or received
\* twice; and while the display task runs, every accepted event is
\* eventually received.
C12_BoundedLosslessChannel ==
    /\ [](Len(event_channel) <= EVENT_CHANNEL_CAPACITY)
    /\ [][EventChannelFull =>
            /\ produced' = produced
            /\ event_channel' \in {event_channel, Tail(event_channel)}]_vars
    /\ [][\/ event_channel' = event_channel /\ produced' = produced
          \/ /\ event_channel' = Append(event_channel, produced'[Len(produced')])
             /\ Len(produced') = Len(produced) + 1
          \/ /\ event_channel' = Tail(event_channel)
             /\ produced' = produced
             /\ orch_pc = "recv"]_vars
    /\ [](event_channel = SubSeq(produced, Received + 1, Len(produced)))
    /\ \A k \in 1..MaxBus :
          (Len(produced) >= k) ~> (Received >= k \/ display_pc = "returned")

C12_Witness ==
    /\ EventChannelFull
    /\ Len(produced) = EVENT_CHANNEL_CAPACITY
    /\ display_pc = "wait"
    /\ orch_pc = "recv"

IsSensorData(event) == event.type = "SensorData"

\* the CO2 values of the SensorData events received, in arrival order
Co2Log ==
    LET data == SelectSeq(ReceivedEvents, IsSensorData)
    IN  [i \in 1..Len(data) |-> data[i].co2]

LastN(s, n) == SubSeq(s, Len(s) - n + 1, Len(s))

Min(a, b) == IF a <= b THEN a ELSE b

\* the SensorData commands put on the display channel so far
SensorDataCommandsSent ==
    LET n == IF orch_pc = "send" /\ Unwrap(orch_cmd).type = "SensorData"
             THEN Len(Co2Log) - 1
             ELSE Len(Co2Log)
    IN  [i \in 1..n |-> SensorDataCommand(Co2Log[i])]

\* C13: co2_history is the CO2 values of the last min(n, 10) SensorData
\* events received, in arrival order; last_sensor_data is the most recent
\* one; each SensorData event causes exactly one SensorData command with
\* the same values.
C13_Co2HistoryWindow ==
    /\ [](Len(system_state.co2_history) <= CO2_HISTORY_CAPACITY)
    /\ [](system_state.co2_history =
              LastN(Co2Log, Min(Len(Co2Log), CO2_HISTORY_CAPACITY)))
    /\ [](system_state.last_sensor_data =
              IF Co2Log = << >> THEN None ELSE Some([co2 |-> Co2Log[Len(Co2Log)]]))
    /\ [](IsSuffix(SelectSeq(display_channel, IsSensorData), SensorDataCommandsSent))
    /\ [][(Len(event_channel') < Len(event_channel) /\ IsSensorData(Head(event_channel))) =>
            /\ orch_cmd' = Some(SensorDataCommand(Head(event_channel).co2))
            /\ orch_pc' = "send"
            /\ display_channel' = display_channel]_vars
    /\ [][(orch_pc = "send" /\ IsSensorData(Unwrap(orch_cmd)) /\ orch_pc' # orch_pc) =>
            /\ display_channel' = Append(display_channel, Unwrap(orch_cmd))
            /\ orch_cmd' = None]_vars

C13_Witness ==
    /\ Len(Co2Log) = CO2_HISTORY_CAPACITY + 1
    /\ Co2Log[1] = 900
    /\ Co2Log[2] = 450
    /\ Co2Log[CO2_HISTORY_CAPACITY + 1] = 900
    /\ system_state.co2_history[1] = 450
    /\ Len(system_state.co2_history) = CO2_HISTORY_CAPACITY

IsPowerEvent(event) == event.type \in {"BatteryCharging", "BatteryLevel"}
IsBatteryLevel(event) == event.type = "BatteryLevel"

\* the power events received, in arrival order
PowerLog == SelectSeq(ReceivedEvents, IsPowerEvent)
LevelLog == SelectSeq(ReceivedEvents, IsBatteryLevel)

IsMedianOf3(m, a, b, c) ==
    /\ m \in {a, b, c}
    /\ Cardinality({i \in 1..3 : <<a, b, c>>[i] <= m}) >= 2
    /\ Cardinality({i \in 1..3 : <<a, b, c>>[i] >= m}) >= 2

\* C16: the returned co2 and etoh are the medians of the three samples of
\* this call, and the returned air quality index is that of the first
\* sample, in acquisition order, whose co2 equals the co2 median.
C16_MedianAndMatchingIndex ==
    IsSome(ens160_readings) =>
        LET readings == Unwrap(ens160_readings)
            pairs == ens160_call.co2_aqi_pairs
            etoh == ens160_call.etoh_median
            first == CHOOSE i \in 1..3 :
                        /\ pairs[i][1] = readings.co2
                        /\ \A j \in 1..(i - 1) : pairs[j][1] # readings.co2
        IN  /\ Len(pairs) = ENS160_MEDIAN_READINGS
            /\ IsMedianOf3(readings.co2, pairs[1][1], pairs[2][1], pairs[3][1])
            /\ IsMedianOf3(readings.etoh, etoh[1], etoh[2], etoh[3])
            /\ \E i \in 1..3 : pairs[i][1] = readings.co2
            /\ readings.air_quality = pairs[first][2]

C16_Witness ==
    /\ ens160_call.co2_aqi_pairs =
           <<<<650, "Excellent">>, <<700, "Good">>, <<900, "Moderate">>>>
    /\ ens160_call.etoh_median = <<30, 10, 10>>
    /\ ens160_readings = Some([co2 |-> 700, etoh |-> 10, air_quality |-> "Good"])

(***************************************************************************)
(* The humidity calibrator on its own: add_measurement and                 *)
(* calibrate_humidity called with raw humidity samples in whole %RH.       *)
(* fed records what add_measurement was given: the number of samples, the  *)
(* last one and the one before it, the first INITIAL_BASELINE_READINGS of  *)
(* them, the length of the run of equal samples they end with, whether     *)
(* they never fell, and how many calls in a row, up to the last one, found *)
(* no rapid change (stable), found none and ended outside the rapid-change *)
(* period (calm), or found none and ended inside the period with the       *)
(* sample BASELINE_SHIFT_THRESHOLD or more away from pre_change_baseline   *)
(* (confirming).                                                           *)
(***************************************************************************)
MaxSamples == 8
MaxDrift == 2500
CalibRaws == {40, 44, 50}
CalibTemperature == 25
CalibrateRaws == {0, 100}
DriftStart == {27, 30, 33, 57, 60, 63}
DriftLevels == {30, 60}
DriftShift == 3

\* did the add_measurement call find a rapid change
RapidChangeFound(self, raw) == detect_rapid_change(self, f32_from(raw)).is_rapid_change

\* is the sample BASELINE_SHIFT_THRESHOLD or more away from the stored
\* pre_change_baseline
AwayFromPreChangeBaseline(self, raw) ==
    /\ IsSome(self.pre_change_baseline)
    /\ f32_ge(f32_abs(f32_sub(f32_from(raw), Unwrap(self.pre_change_baseline))),
              BASELINE_SHIFT_THRESHOLD)

Feed(temperature, raw) ==
    /\ humidity_calibrator' =
           add_measurement(humidity_calibrator, f32_from(temperature), f32_from(raw))
    /\ calibrated' = None
    /\ fed' = [count |-> fed.count + 1,
               raw |-> raw,
               prev |-> fed.raw,
               stable |-> IF RapidChangeFound(humidity_calibrator, raw)
                          THEN 0
                          ELSE fed.stable + 1,
               calm |-> IF \/ RapidChangeFound(humidity_calibrator, raw)
                           \/ humidity_calibrator'.in_rapid_change_period
                        THEN 0
                        ELSE fed.calm + 1,
               confirming |-> IF /\ ~RapidChangeFound(humidity_calibrator, raw)
                                 /\ humidity_calibrator'.in_rapid_change_period
                                 /\ AwayFromPreChangeBaseline(humidity_calibrator', raw)
                              THEN fed.confirming + 1
                              ELSE 0,
               temperature |-> temperature,
               history |-> IF Len(fed.history) < INITIAL_BASELINE_READINGS
                           THEN Append(fed.history, raw)
                           ELSE fed.history,
               run |-> IF fed.count > 0 /\ raw = fed.raw THEN fed.run + 1 ELSE 1,
               increasing |-> fed.increasing /\ (fed.count = 0 \/ raw >= fed.raw)]
    /\ UNCHANGED <<now, healthVars, ghostVars, channelVars, system_state,
                   sensorVars, vsysVars, ms_wake, orchVars, displayVars, produced, ensVars, iterVars, extraVars>>

\* add_measurement with any of the samples
AddMeasurement ==
    /\ fed.count < MaxSamples
    /\ \E raw \in CalibRaws : Feed(CalibTemperature, raw)

\* add_measurement with a steady level: the baseline is established at one
\* level, the samples after it stay at a level that is the same or
\* DriftShift away
AddSteadyMeasurement ==
    /\ fed.count < MaxDrift
    /\ \E raw \in (IF fed.count = 0
                   THEN DriftStart
                   ELSE IF fed.count = INITIAL_BASELINE_READINGS
                   THEN {fed.raw - DriftShift, fed.raw, fed.raw + DriftShift} \cap DriftLevels
                   ELSE {fed.raw}) :
          Feed(CalibTemperature, raw)

\* calibrate_humidity with the sample just measured, or with an extreme one
CalibrateHumidity ==
    /\ calibrated = None
    /\ \E raw \in CalibrateRaws \cup (IF fed.count > 0 THEN {fed.raw} ELSE {}) :
          calibrated' = Some([raw |-> raw,
                              value |-> calibrate_humidity(humidity_calibrator,
                                                           f32_from(CalibTemperature),
                                                           f32_from(raw))])
    /\ UNCHANGED <<humidity_calibrator, fed>>
    /\ UNCHANGED <<now, healthVars, ghostVars, channelVars, system_state,
                   sensorVars, vsysVars, ms_wake, orchVars, displayVars, produced, ensVars, iterVars, extraVars>>

NextCalib ==
    \/ AddMeasurement
    \/ CalibrateHumidity

SpecCalib == Init /\ [][NextCalib]_vars

NextDrift ==
    \/ AddSteadyMeasurement
    \/ CalibrateHumidity

SpecDrift == Init /\ [][NextDrift]_vars

\* add_measurement with a slow ramp: each sample is the one before it or
\* RampStep above it
MaxRamp == 8
RampStart == 40
RampStep == 3

AddRampMeasurement ==
    /\ fed.count < MaxRamp
    /\ \E raw \in (IF fed.count = 0 THEN {RampStart} ELSE {fed.raw, fed.raw + RampStep}) :
          Feed(CalibTemperature, raw)

NextRamp ==
    \/ AddRampMeasurement
    \/ CalibrateHumidity

SpecRamp == Init /\ [][NextRamp]_vars

\* add_measurement with a steady level that jumps: the baseline is
\* established at one level, the samples after it stay at a level that is the
\* same or DriftShift above, and at one of the JumpPoints the level rises by
\* one of the JumpSizes and stays there
MaxJump == 125
JumpStart == {57, 60}
JumpPoints == {7, 106}
JumpSizes == {6, 10}

AddJumpMeasurement ==
    /\ fed.count < MaxJump
    /\ \E raw \in (IF fed.count = 0
                   THEN JumpStart
                   ELSE IF fed.count = INITIAL_BASELINE_READINGS
                   THEN {fed.raw, fed.raw + DriftShift} \cap DriftLevels
                   ELSE IF fed.count + 1 \in JumpPoints /\ fed.raw \in DriftLevels
                   THEN {fed.raw} \cup {fed.raw + size : size \in JumpSizes}
                   ELSE {fed.raw}) :
          Feed(CalibTemperature, raw)

NextJump ==
    \/ AddJumpMeasurement
    \/ CalibrateHumidity

SpecJump == Init /\ [][NextJump]_vars

(***************************************************************************)
(* Claims about the humidity calibrator                                    *)
(***************************************************************************)
\* a step that is one add_measurement call
Measured == fed'.count = fed.count + 1

\* C17: a sample more than 5 %RH above its predecessor leaves
\* in_rapid_change_period true right after its add_measurement call; and
\* every add_measurement call that leaves the period on (the recovery
\* criteria not yet met) computes no offset from the sample:
\* long_term_statistical_offset and long_term_stable_count keep their
\* values and humidity_offset keeps its value or is the 0.0 of the reset.
\* This holds for every sequence of samples, the monotonically increasing
\* ones among them.
C17_RapidChangeSuspendsOffsets ==
    [][Measured =>
          /\ (fed.count > 0 /\ fed'.raw - fed.raw > 5)
                => humidity_calibrator'.in_rapid_change_period
          /\ humidity_calibrator'.in_rapid_change_period
                => /\ humidity_calibrator'.long_term_statistical_offset
                          = humidity_calibrator.long_term_statistical_offset
                   /\ humidity_calibrator'.humidity_offset
                          \in {humidity_calibrator.humidity_offset, f32_zero}
                   /\ humidity_calibrator'.long_term_stable_count
                          = humidity_calibrator.long_term_stable_count]_vars

\* a rising sequence: five samples of 40, one of 40 or 44, then the jump to
\* 50 and a second sample of 50 inside the flagged period
C17_Witness ==
    /\ fed.increasing
    /\ fed.history = <<40, 40, 40, 40, 40>>
    /\ fed.raw = 50
    /\ fed.run = 2
    /\ fed.count = 8
    /\ humidity_calibrator.in_rapid_change_period
    /\ IsSome(humidity_calibrator.pre_change_baseline)
    /\ humidity_calibrator.humidity_offset = f32_zero
    /\ humidity_calibrator.current_baseline = None

\* no sample of the sequence is RAPID_CHANGE_THRESHOLD or more away from
\* its predecessor
NoRapidChange(samples) ==
    \A i \in 2..Len(samples) : Abs(samples[i] - samples[i - 1]) < 5

RECURSIVE SumOf(_)
SumOf(samples) ==
    IF samples = << >> THEN 0 ELSE samples[1] + SumOf(Tail(samples))

\* the arithmetic mean of the samples, as the f32 nearest to it
MeanOf(samples) == f32_div(f32_from(SumOf(samples)), f32_from(Len(samples)))

\* C18: on a fresh calibrator fed k <= 5 samples with no rapid change
\* between them, current_baseline is the arithmetic mean of the k samples,
\* and calibrate_humidity called after the k-th add_measurement returns the
\* raw value it was given.
C18_BaselineIsMeanRawReturned ==
    (fed.count \in 1..INITIAL_BASELINE_READINGS /\ NoRapidChange(fed.history)) =>
        /\ humidity_calibrator.baseline_reading_count = fed.count
        /\ humidity_calibrator.current_baseline = Some(MeanOf(fed.history))
        /\ IsSome(calibrated) =>
              Unwrap(calibrated).value = f32_from(Unwrap(calibrated).raw)

\* the fifth sample has been measured and calibrated; the mean of the five,
\* and already that of the first three, is not a whole number
C18_Witness ==
    /\ fed.history = <<40, 44, 44, 40, 44>>
    /\ fed.count = INITIAL_BASELINE_READINGS
    /\ IsSome(calibrated)
    /\ Unwrap(calibrated).raw = fed.raw
    /\ Unwrap(calibrated).value = f32_from(44)
    /\ humidity_calibrator.current_baseline = Some(MeanOf(<<40, 44, 44, 40, 44>>))

\* a step that is one calibrate_humidity call
Calibrated == calibrated = None /\ IsSome(calibrated')

\* C19: with the baseline established calibrate_humidity(raw) returns
\* clamp(raw + humidity_offset + long_term_statistical_offset, 0, 100), a
\* value within [0, 100]; with the baseline not established it returns raw;
\* in both cases the calibrator is left as it was.
C19_CalibrateClampsAndKeepsState ==
    [][Calibrated =>
          LET raw == f32_from(Unwrap(calibrated').raw)
              value == Unwrap(calibrated').value
          IN  /\ humidity_calibrator' = humidity_calibrator
              /\ IF humidity_calibrator.baseline_reading_count >= INITIAL_BASELINE_READINGS
                 THEN /\ value =
                            f32_clamp(
                                f32_add(f32_add(raw, humidity_calibrator.humidity_offset),
                                        humidity_calibrator.long_term_statistical_offset),
                                f32_zero, f32_from(100))
                      /\ f32_ge(value, f32_zero)
                      /\ f32_le(value, f32_from(100))
                 ELSE value = raw]_vars

\* both offsets are above zero and calibrate_humidity(100) has returned 100
C19_Witness ==
    /\ IsSome(calibrated)
    /\ Unwrap(calibrated).raw = 100
    /\ Unwrap(calibrated).value = f32_from(100)
    /\ humidity_calibrator.baseline_reading_count >= INITIAL_BASELINE_READINGS
    /\ f32_gt(humidity_calibrator.humidity_offset, f32_zero)
    /\ f32_gt(humidity_calibrator.long_term_statistical_offset, f32_zero)

\* the sample is 15 %RH above expected_indoor_humidity(temperature)
FifteenAboveExpected(sample) ==
    f32_from(sample.raw) =
        f32_add(expected_indoor_humidity(f32_from(sample.temperature)), f32_from(15))

\* what is left between long_term_statistical_offset and -15
RemainingDistance(self) == f32_add(self.long_term_statistical_offset, f32_from(15))

\* an add_measurement call with a sample 15 %RH above the expected value that
\* leaves long_term_stable_count at MIN_READINGS_FOR_LONG_TERM_DRIFT or more
DriftCorrected ==
    /\ Measured
    /\ FifteenAboveExpected(fed')
    /\ humidity_calibrator'.long_term_stable_count >= MIN_READINGS_FOR_LONG_TERM_DRIFT

\* C20: once 100 stable samples 15 %RH above the expected value have been
\* counted, every further add_measurement moves
\* long_term_statistical_offset strictly closer to -15 and never past it.
C20_EveryStepStrictlyCloser ==
    [][DriftCorrected =>
          /\ f32_lt(humidity_calibrator'.long_term_statistical_offset,
                    humidity_calibrator.long_term_statistical_offset)
          /\ f32_ge(humidity_calibrator'.long_term_statistical_offset, f32_from(-15))]_vars

DriftResolution == f32_div(f32_from(1), f32_from(1000))
DriftRounding == f32_div(f32_from(1), f32_from(100000))

\* C20: once 100 stable samples 15 %RH above the expected value have been
\* counted, every further add_measurement leaves
\* long_term_statistical_offset where it is or nearer to -15, never past
\* -15; the step is 0.005 times the remaining distance up to the rounding
\* of f32, so it is a strict approach while more than 0.001 %RH remains.
C20_ApproachesMinus15 ==
    [][DriftCorrected =>
          LET old == humidity_calibrator.long_term_statistical_offset
              new == humidity_calibrator'.long_term_statistical_offset
              step == f32_sub(old, new)
              remaining == RemainingDistance(humidity_calibrator)
          IN  /\ f32_le(new, old)
              /\ f32_ge(new, f32_from(-15))
              /\ f32_le(f32_abs(f32_sub(step,
                                        f32_mul(LONG_TERM_DRIFT_LEARNING_RATE, remaining))),
                        DriftRounding)
              /\ f32_gt(remaining, DriftResolution) => f32_lt(new, old)]_vars

\* the correction has run until less than 0.001 %RH is left
C20_Witness ==
    /\ FifteenAboveExpected(fed)
    /\ humidity_calibrator.long_term_stable_count >= MIN_READINGS_FOR_LONG_TERM_DRIFT
    /\ f32_gt(humidity_calibrator.long_term_statistical_offset, f32_from(-15))
    /\ f32_lt(RemainingDistance(humidity_calibrator), DriftResolution)

\* C21: whenever the newest sample differs by more than 5 %RH from the
\* sample two add_measurement calls earlier, the calibrator is in the
\* rapid-change period after the call.
C21_WindowOfThreeSamples ==
    [][(Measured /\ fed.count >= 2 /\ Abs(fed'.raw - fed.prev) > 5) =>
          humidity_calibrator'.in_rapid_change_period]_vars

\* C22: baseline_shifted becomes true only at a call that ends a run of at
\* least BASELINE_SHIFT_CONFIRMATION_READINGS add_measurement calls which
\* found no rapid change and whose samples were each 8 %RH or more away from
\* pre_change_baseline.
C22_ShiftNeedsSixSamples ==
    [][(Measured /\ ~humidity_calibrator.baseline_shifted
                 /\ humidity_calibrator'.baseline_shifted) =>
          fed'.confirming >= BASELINE_SHIFT_CONFIRMATION_READINGS]_vars

\* C23: the rapid-change period ends only at a call that ends a run of at
\* least MIN_STABLE_READINGS_AFTER_RAPID_CHANGE add_measurement calls which
\* found no rapid change; that call sets current_baseline to its sample,
\* marks the baseline established, zeroes humidity_offset and clears
\* pre_change_baseline.
C23_RecoveryNeedsTwelveSamples ==
    [][(Measured /\ humidity_calibrator.in_rapid_change_period
                 /\ ~humidity_calibrator'.in_rapid_change_period) =>
          /\ fed'.stable >= MIN_STABLE_READINGS_AFTER_RAPID_CHANGE
          /\ humidity_calibrator'.current_baseline = Some(f32_from(fed'.raw))
          /\ humidity_calibrator'.baseline_reading_count = INITIAL_BASELINE_READINGS
          /\ humidity_calibrator'.humidity_offset = f32_zero
          /\ humidity_calibrator'.pre_change_baseline = None]_vars

\* C24: a run of stable samples after a rapid change ends the rapid-change
\* period, whether or not a baseline shift was confirmed: once
\* MIN_STABLE_READINGS_AFTER_RAPID_CHANGE add_measurement calls in a row
\* have found no rapid change, the calibrator is outside the period.
C24_StableRunEndsPeriod ==
    fed.stable >= MIN_STABLE_READINGS_AFTER_RAPID_CHANGE =>
        ~humidity_calibrator.in_rapid_change_period

\* C25: an add_measurement call changes long_term_statistical_offset only
\* if it ends a run of at least MIN_READINGS_FOR_LONG_TERM_DRIFT calls that
\* found no rapid change and ended outside the rapid-change period.
C25_LongTermNeedsHundredCalmSamples ==
    [][(Measured /\ humidity_calibrator'.long_term_statistical_offset
                        # humidity_calibrator.long_term_statistical_offset) =>
          fed'.calm >= MIN_READINGS_FOR_LONG_TERM_DRIFT]_vars

\* C26: an add_measurement call leaves humidity_offset as it was, or zeroes
\* it (only when the call found a rapid change or left the rapid-change
\* period), or sets it to old * (1 - 0.02) + (-drift) * 0.02 with
\* drift = raw - baseline (only with the baseline established, the
\* calibrator outside the rapid-change period and |drift| >= 2); it leaves
\* long_term_statistical_offset as it was or sets it to
\* old * (1 - 0.005) + (-error) * 0.005 with error = raw - expected.
C26_OffsetsMoveByNudgeOrReset ==
    [][Measured =>
          LET self == humidity_calibrator
              raw == f32_from(fed'.raw)
              old == self.humidity_offset
              new == humidity_calibrator'.humidity_offset
              drift == f32_sub(raw, Unwrap(self.current_baseline))
              error == f32_sub(raw, expected_indoor_humidity(f32_from(fed'.temperature)))
              old_long == self.long_term_statistical_offset
              new_long == humidity_calibrator'.long_term_statistical_offset
          IN  /\ \/ new = old
                 \/ /\ new = f32_zero
                    /\ \/ RapidChangeFound(self, fed'.raw)
                       \/ /\ self.in_rapid_change_period
                          /\ ~humidity_calibrator'.in_rapid_change_period
                 \/ /\ self.baseline_reading_count >= INITIAL_BASELINE_READINGS
                    /\ IsSome(self.current_baseline)
                    /\ ~self.in_rapid_change_period
                    /\ ~humidity_calibrator'.in_rapid_change_period
                    /\ f32_ge(f32_abs(drift), MIN_DRIFT_THRESHOLD)
                    /\ new = f32_add(f32_mul(old, f32_sub(f32_from(1), DRIFT_LEARNING_RATE)),
                                     f32_mul(f32_neg(drift), DRIFT_LEARNING_RATE))
              /\ \/ new_long = old_long
                 \/ new_long =
                        f32_add(f32_mul(old_long,
                                        f32_sub(f32_from(1), LONG_TERM_DRIFT_LEARNING_RATE)),
                                f32_mul(f32_neg(error), LONG_TERM_DRIFT_LEARNING_RATE))]_vars

\* the baseline was established at 57 %RH, both offsets were nudged at
\* 60 %RH, and the rapid change to 66 %RH has zeroed humidity_offset
C26_Witness ==
    /\ fed.history = <<57, 57, 57, 57, 57>>
    /\ fed.count = 107
    /\ fed.raw = 66
    /\ fed.run = 2
    /\ humidity_calibrator.in_rapid_change_period
    /\ humidity_calibrator.humidity_offset = f32_zero
    /\ humidity_calibrator.long_term_statistical_offset # f32_zero

(***************************************************************************)
(* Claims about the sensor cycle in detail                                 *)
(***************************************************************************)
\* how many times the operation appears in the log
CountOps(log, op) == Cardinality({k \in DOMAIN log : log[k].op = op})

\* the step is the AHT21 read of a cycle, and it failed
Aht21ReadFailed ==
    /\ sensor_task.pc = "loop"
    /\ sensor_task'.pc = "compensate"
    /\ ~sensor_task'.aht21_result.ok

\* C27: a failed AHT21 read leaves prev_temp and prev_humidity unchanged
\* (25.0 and 50.0 while no read has succeeded) and adds no measurement to
\* the calibrator; the cycle then writes these values as the ENS160
\* compensation and, when the write succeeds, runs the air-quality
\* acquisition (three samples unless a read fails); prev_temp and
\* prev_humidity change only at a successful AHT21 read, to its raw
\* temperature and calibrated humidity.
C27_FailedAht21KeepsCompensation ==
    [][/\ Aht21ReadFailed =>
             /\ sensor_task'.prev_temp = sensor_task.prev_temp
             /\ sensor_task'.prev_humidity = sensor_task.prev_humidity
             /\ sensor_task'.humidity_calibrator.data_points
                    = sensor_task.humidity_calibrator.data_points
       /\ sensor_task'.humidity_calibrator.data_points = << >> =>
             /\ sensor_task'.prev_temp = f32_from(25)
             /\ sensor_task'.prev_humidity = f32_from(50)
       /\ (sensor_task.pc = "compensate" /\ sensor_task'.pc # "compensate") =>
             /\ io_log'[2].op = "set_temp_rh_comp"
             /\ io_log'[2].temp = sensor_task.prev_temp
             /\ io_log'[2].rh = f32_as_u16(sensor_task.prev_humidity)
             /\ io_log'[2].ok => sensor_task'.pc = "wait_for_low"
       /\ (sensor_task'.pc = "report" /\ io_log'[2].ok) =>
             /\ IsSome(sensor_task'.ens160_result)
             /\ sensor_task'.ens160_result.ok =>
                    CountOps(io_log', "get_airquality_index") = ENS160_MEDIAN_READINGS
       /\ (\/ sensor_task'.prev_temp # sensor_task.prev_temp
           \/ sensor_task'.prev_humidity # sensor_task.prev_humidity) =>
             /\ sensor_task.pc = "loop"
             /\ sensor_task'.aht21_result.ok
             /\ sensor_task'.prev_temp = sensor_task'.aht21_result.value.raw_temperature
             /\ sensor_task'.prev_humidity
                    = sensor_task'.aht21_result.value.calibrated_humidity
             /\ sensor_task'.prev_humidity
                    = stat_calibrate_humidity(sensor_task'.humidity_calibrator,
                                              sensor_task'.aht21_result.value.raw_temperature,
                                              sensor_task'.aht21_result.value.raw_humidity)]_vars

\* the AHT21 read of this cycle failed after an earlier one measured 60 %RH;
\* the stale 22 degC and 60 %RH were written and all three samples acquired
C27_Witness ==
    /\ sensor_task.pc = "report"
    /\ ~sensor_task.aht21_result.ok
    /\ IsSome(sensor_task.ens160_result)
    /\ sensor_task.ens160_result.ok
    /\ sensor_task.prev_humidity = f32_from(60)
    /\ io_log[2] = [op |-> "set_temp_rh_comp", ok |-> TRUE, temp |-> f32_from(22), rh |-> 60]
    /\ CountOps(io_log, "wait_for_low") = ENS160_MEDIAN_READINGS

\* the compensation write of the current cycle has failed
CompensationFailed(log) ==
    /\ Len(log) >= 2
    /\ log[2].op = "set_temp_rh_comp"
    /\ ~log[2].ok

\* C28: when the compensation write fails the cycle ends as a failed
\* iteration: the step after it is the failure report, and the cycle has no
\* data-ready wait, no ENS160 read and no SensorData event.
C28_FailedCompensationEndsCycle ==
    [][CompensationFailed(io_log') =>
          /\ sensor_task'.pc \in {"report", "sleep", "loop"}
          /\ ~sensor_task'.success
          /\ event_channel' = event_channel
          /\ SubSeq(io_log', 3, Len(io_log')) \in
                 {<< >>, <<[op |-> "report_task_failure", ok |-> TRUE]>>}
          /\ (sensor_task'.pc = "report") <=> (Len(io_log') = 2)]_vars

\* the AHT21 read succeeded, the compensation write failed and the failure
\* has been reported
C28_Witness ==
    /\ sensor_task.pc = "sleep"
    /\ CompensationFailed(io_log)
    /\ io_log[1].ok
    /\ ~health.tasks["Sensor"]
    /\ Len(event_channel) > 0

\* a step of sensor_task that ends a cycle without reaching the send
EndsCycleWithoutSend ==
    /\ sensor_pc \in {"warmup", "sleep", "wait_int"}
    /\ sensor_pc' = "sleep"
    /\ sensor_wake' # sensor_wake

\* a step of sensor_task that begins a cycle
BeginsCycle ==
    /\ sensor_pc \in {"warmup", "sleep"}
    /\ \/ sensor_pc' = "wait_int"
       \/ sensor_pc' = "sleep" /\ sensor_wake' # sensor_wake

\* C29: after a successful initialization sensor_task never returns; a
\* cycle that ends without a send had a failed transaction, reports the
\* failure, sends nothing and sleeps READ_INTERVAL; a cycle begins only
\* when the timer of the one before has elapsed; a cycle without a failed
\* transaction goes on to the send, which appends a SensorData event, sets
\* the Sensor flag and sleeps READ_INTERVAL.
C29_IoErrorNeverEndsSensorTask ==
    [][/\ sensor_pc \notin {"init", "returned"} => sensor_pc' # "returned"
       /\ EndsCycleWithoutSend =>
             /\ cycle'.failed
             /\ io_failed'
             /\ ~health'.tasks["Sensor"]
             /\ sensor_reported_at' = now
             /\ sensor_wake' = now + READ_INTERVAL
             /\ event_channel' = event_channel
       /\ BeginsCycle => now >= sensor_wake
       /\ (sensor_pc = "wait_int" /\ sensor_pc' \notin {"wait_int", "hung"}) =>
             (sensor_pc' = "send") = ~cycle'.failed
       /\ (sensor_pc = "send" /\ sensor_pc' # "send") =>
             /\ sensor_pc' = "sleep"
             /\ Len(event_channel') = Len(event_channel) + 1
             /\ IsSensorData(event_channel'[Len(event_channel')])
             /\ health'.tasks["Sensor"]
             /\ sensor_reported_at' = now
             /\ sensor_wake' = now + READ_INTERVAL]_vars

\* the task sleeps after a cycle that sent its event and set the flag,
\* after an earlier cycle had failed
C29_Witness ==
    /\ sensor_pc = "sleep"
    /\ io_failed
    /\ ~cycle.failed
    /\ cycle.sent = 1
    /\ health.tasks["Sensor"]
    /\ sensor_reported_at = now
    /\ now >= WARMUP_TIME + READ_INTERVAL

\* the operations of read_ens160, in the order of one sample
AcquisitionOrder ==
    <<"wait_for_low", "get_status", "get_eco2", "get_etoh", "get_airquality_index">>

IsAcquisitionOp(entry) == \E k \in DOMAIN AcquisitionOrder : entry.op = AcquisitionOrder[k]

\* the part of the cycle's log that read_ens160 wrote
Acquisition == SelectSeq(io_log, IsAcquisitionOp)

\* C30: the acquisition of a cycle is a sequence of samples, each one wait
\* for the data-ready line followed by the reads of status, eCO2, ethanol
\* and the air-quality index in this order; only its last operation can
\* have failed, so a failing read is followed by no wait and no read; a
\* successful acquisition is exactly 3 waits and 3 full samples.
C30_AcquisitionOrder ==
    /\ \A k \in DOMAIN Acquisition :
          /\ Acquisition[k].op = AcquisitionOrder[((k - 1) % 5) + 1]
          /\ k < Len(Acquisition) => Acquisition[k].ok
    /\ Len(Acquisition) <= 5 * ENS160_MEDIAN_READINGS
    /\ Acquisition # << >> =>
          /\ io_log[2].op = "set_temp_rh_comp" /\ io_log[2].ok
          /\ SubSeq(io_log, 3, 2 + Len(Acquisition)) = Acquisition
    /\ (sensor_task.pc \in {"process", "report", "sleep"} /\ IsSome(sensor_task.ens160_result)) =>
          IF sensor_task.ens160_result.ok
          THEN /\ Len(Acquisition) = 5 * ENS160_MEDIAN_READINGS
               /\ CountOps(io_log, "wait_for_low") = ENS160_MEDIAN_READINGS
               /\ \A k \in DOMAIN Acquisition : Acquisition[k].ok
          ELSE ~Acquisition[Len(Acquisition)].ok

\* the eCO2 read of the second sample failed and the cycle is over: two
\* waits, seven reads, then the failure report
C30_Witness ==
    /\ sensor_task.pc = "sleep"
    /\ Len(Acquisition) = 8
    /\ ~Acquisition[8].ok
    /\ Acquisition[8].op = "get_eco2"
    /\ CountOps(io_log, "wait_for_low") = 2
    /\ io_log[Len(io_log)].op = "report_task_failure"

(***************************************************************************)
(* The health supervisor with every report noted: the task and the kind of *)
(* the last call of report_task_success or report_task_failure.            *)
(***************************************************************************)
MaxReportTime == 360

NoteReportSuccess ==
    \E t \in TaskId :
        /\ report_task_success(t)
        /\ last_report' = Some([task |-> t, success |-> TRUE])
        /\ expected_call' = expected_call
        /\ UNCHANGED lockVars
        /\ UNCHANGED <<now, wd_pc, wd_wake, hw_watchdog, ghostVars, channelVars,
                       system_state, sensorVars, vsysVars, ms_wake, orchVars, displayVars,
                       produced, ensVars, calibVars, iterVars>>

NoteReportFailure ==
    \E t \in TaskId :
        /\ report_task_failure(t)
        /\ last_report' = Some([task |-> t, success |-> FALSE])
        /\ expected_call' = expected_call
        /\ UNCHANGED lockVars
        /\ UNCHANGED <<now, wd_pc, wd_wake, hw_watchdog, ghostVars, channelVars,
                       system_state, sensorVars, vsysVars, ms_wake, orchVars, displayVars,
                       produced, ensVars, calibVars, iterVars>>

ReportAdvance ==
    /\ ~WatchdogDue
    /\ now + TimeStep <= MaxReportTime
    /\ TimePasses
    /\ UNCHANGED <<healthVars, ghostVars, taskVars>>

NextReport ==
    \/ NoteReportSuccess
    \/ NoteReportFailure
    \/ WatchdogTick
    \/ ReportAdvance

SpecReport == Init /\ [][NextReport]_vars

AllTasksHealthy(h) == \A t \in TaskId : h.tasks[t]

\* C33: all_healthy is the AND of the five task flags in every state; the
\* flag of the task of the last report is true after a success and false
\* after a failure; a step changes no flag but that of the task reported
\* in it, so a watchdog tick changes none; until the first report or tick
\* all flags are unhealthy, all_healthy is false and no deadline is set.
C33_AllHealthyIsAndOfFlags ==
    [][/\ health'.all_healthy = AllTasksHealthy(health')
       /\ IsSome(last_report') =>
             health'.tasks[Unwrap(last_report').task] = Unwrap(last_report').success
       /\ \A u \in TaskId :
             health'.tasks[u] # health.tasks[u] =>
                 /\ IsSome(last_report')
                 /\ Unwrap(last_report').task = u
       /\ (last_report = None /\ wd_wake = 0) =>
             /\ ~AllTasksHealthy(health)
             /\ \A t \in TaskId : ~health.tasks[t]
             /\ ~health.all_healthy
             /\ health.countdown_deadline = None]_vars

\* the fifth task has just reported success after a tick that found four
\* healthy: all five flags are set and all_healthy with them
C33_Witness ==
    /\ IsSome(last_report)
    /\ Unwrap(last_report) = [task |-> "ModeSwitch", success |-> TRUE]
    /\ health.all_healthy
    /\ AllTasksHealthy(health)
    /\ wd_wake = 2 * HEALTH_CHECK_INTERVAL
    /\ now = 2 * HEALTH_CHECK_INTERVAL

\* C34: once the hardware watchdog is started it stays started and
\* watchdog_task stays in its inner wait loop: it sets no timer for another
\* health check, the clock does not reach the next instant of the grid
\* before the reset, and SYSTEM_HEALTH changes only by a report that
\* changes the flag of its task.
C34_StartedWatchdogIsFinal ==
    [][/\ hw_watchdog' = "started" => wd_pc' = "reset_wait"
       /\ hw_watchdog = "started" =>
             /\ hw_watchdog' = "started"
             /\ wd_wake' = wd_wake
             /\ now' = now
             /\ ~WatchdogDue'
             /\ health' # health =>
                   \E t \in TaskId : health'.tasks[t] # health.tasks[t]]_vars

\* after the start of the hardware watchdog all five tasks have reported
\* success and the countdown deadline lies in the future again
C34_Witness ==
    /\ hw_watchdog = "started"
    /\ wd_pc = "reset_wait"
    /\ health.all_healthy
    /\ IsSome(health.countdown_deadline)
    /\ Unwrap(health.countdown_deadline) = now + COUNTDOWN_TIMEOUT

\* a step of watchdog_task out of its interval sleep
TickStep == wd_pc = "sleep" /\ <<wd_pc', wd_wake'>> # <<wd_pc, wd_wake>>

\* C35: a tick changes no flag; a tick that finds all five tasks healthy
\* sets the deadline to now + 900 s and does not start the hardware
\* watchdog; the hardware watchdog is started exactly when the deadline
\* left by the tick's own update has passed, so only at a tick at which
\* some task is unhealthy.
C35_EscalatesOnlyWhenUnhealthy ==
    [][TickStep =>
          /\ health'.tasks = health.tasks
          /\ AllTasksHealthy(health) =>
                /\ health'.countdown_deadline = Some(now + COUNTDOWN_TIMEOUT)
                /\ hw_watchdog' = "off"
                /\ wd_pc' = "sleep"
          /\ (hw_watchdog' = "started") =
                (/\ IsSome(health'.countdown_deadline)
                 /\ now >= Unwrap(health'.countdown_deadline))
          /\ hw_watchdog' = "started" => \E t \in TaskId : ~health.tasks[t]]_vars

\* a tick later than the first deadline has found all tasks healthy and
\* re-armed the countdown
C35_Witness ==
    /\ now >= COUNTDOWN_TIMEOUT
    /\ wd_pc = "sleep"
    /\ wd_wake = now + HEALTH_CHECK_INTERVAL
    /\ AllTasksHealthy(health)
    /\ health.countdown_deadline = Some(now + COUNTDOWN_TIMEOUT)
    /\ hw_watchdog = "off"

\* C36: while in_rapid_change_period is set the baseline before the change
\* is stored, no current baseline exists, baseline_reading_count and
\* humidity_offset are zero, and calibrate_humidity returns the sample as
\* it is, whatever long_term_statistical_offset holds.
C36_RapidChangePeriodReturnsRaw ==
    humidity_calibrator.in_rapid_change_period =>
        /\ IsSome(humidity_calibrator.pre_change_baseline)
        /\ humidity_calibrator.current_baseline = None
        /\ humidity_calibrator.baseline_reading_count = 0
        /\ humidity_calibrator.humidity_offset = f32_zero
        /\ calibrate_humidity(humidity_calibrator, f32_from(fed.temperature),
                              f32_from(fed.raw)) = f32_from(fed.raw)

\* the second sample of a rapid-change period that began after the
\* long-term correction had moved its offset
C36_Witness ==
    /\ humidity_calibrator.in_rapid_change_period
    /\ humidity_calibrator.long_term_statistical_offset # f32_zero
    /\ fed.stable = 1
    /\ fed.raw # fed.history[INITIAL_BASELINE_READINGS]
    /\ calibrate_humidity(humidity_calibrator, f32_from(fed.temperature),
                          f32_from(fed.raw)) = f32_from(fed.raw)

\* C37: an add_measurement call appends its sample once to recent_readings,
\* evicting the oldest entry when three are held, adds 1 to
\* reading_sequence, and adds 1 to stable_reading_count when it found no
\* rapid change.
C37_SampleRecordedOnce ==
    [][Measured =>
          /\ humidity_calibrator'.reading_sequence =
                 humidity_calibrator.reading_sequence + 1
          /\ Len(humidity_calibrator'.recent_readings) <= CHANGE_HISTORY_SIZE
          /\ humidity_calibrator'.recent_readings =
                 Append(IF Len(humidity_calibrator.recent_readings) >= CHANGE_HISTORY_SIZE
                        THEN Tail(humidity_calibrator.recent_readings)
                        ELSE humidity_calibrator.recent_readings,
                        f32_from(fed'.raw))
          /\ ~RapidChangeFound(humidity_calibrator, fed'.raw) =>
                 humidity_calibrator'.stable_reading_count =
                     humidity_calibrator.stable_reading_count + 1]_vars

(***************************************************************************)
(* expected_indoor_humidity on its own: two calls with temperatures in     *)
(* whole degrees Celsius.                                                  *)
(***************************************************************************)
MaxCold == 20
MaxWarm == 70

Temperatures == (0 - MaxCold)..MaxWarm

ExpectedIndoorHumidity ==
    /\ expected_call = None
    /\ \E t1 \in Temperatures, t2 \in Temperatures :
          expected_call' = Some([t1 |-> t1,
                                 t2 |-> t2,
                                 e1 |-> expected_indoor_humidity(f32_from(t1)),
                                 e2 |-> expected_indoor_humidity(f32_from(t2))])
    /\ UNCHANGED <<now, healthVars, ghostVars, channelVars, system_state, sensorVars,
                   vsysVars, ms_wake, orchVars, displayVars, produced, ensVars, calibVars,
                   iterVars, last_report, lockVars>>

NextExpected == ExpectedIndoorHumidity

SpecExpected == Init /\ [][NextExpected]_vars

\* C39: of two temperatures the lower one has the higher or the same
\* expected indoor humidity.
C39_ExpectedHumidityNonIncreasing ==
    (IsSome(expected_call) /\ Unwrap(expected_call).t1 <= Unwrap(expected_call).t2) =>
        f32_ge(Unwrap(expected_call).e1, Unwrap(expected_call).e2)

(***************************************************************************)
(* vsys_voltage_task with nobody receiving: the event channel keeps every  *)
(* event the task has sent, in order, until it is full.                    *)
(***************************************************************************)
MaxVsysTime == 660
BatteryLevels == {20, 60}

VsysMeasureLevels == VsysMeasureFrom(BatteryLevels)

VsysAdvance ==
    /\ ~VsysReady
    /\ now + TimeStep <= MaxVsysTime
    /\ TimePasses
    /\ UNCHANGED <<healthVars, ghostVars, taskVars>>

NextVsys ==
    \/ VsysMeasureLevels
    \/ VsysSend
    \/ VsysAdvance

SpecVsys == Init /\ [][NextVsys]_vars

\* C40: the power task sends BatteryCharging only for a charging
\* measurement whose previous successful measurement was not charging (or
\* there was none), and BatteryLevel(p) only for an on-battery measurement
\* whose previous state was charging or unknown or whose percentage differs
\* from the last on-battery percentage; a failed read sends nothing and
\* reports failure, a successful iteration reports success. So no two
\* BatteryCharging events follow each other without a BatteryLevel between
\* them, and no two consecutive BatteryLevel events carry the same percentage.
C40_VsysEventsOnlyOnChange ==
    [][/\ \A i \in 1..(Len(event_channel') - 1) :
             LET a == event_channel'[i]
                 b == event_channel'[i + 1]
             IN  /\ ~(a = BatteryChargingEvent /\ b = BatteryChargingEvent)
                 /\ ~(a.type = "BatteryLevel" /\ a = b)
       /\ event_channel' # event_channel =>
             LET e == event_channel'[Len(event_channel')]
             IN  /\ event_channel' = Append(event_channel, e)
                 /\ IsSome(vsys_reading)
                 /\ health'.tasks["Vsys"]
                 /\ e = BatteryChargingEvent =>
                       /\ Unwrap(vsys_reading).is_charging
                       /\ prev_charging_state # Some(TRUE)
                 /\ e # BatteryChargingEvent =>
                       /\ e = BatteryLevelEvent(Unwrap(vsys_reading).battery_percentage)
                       /\ ~Unwrap(vsys_reading).is_charging
                       /\ \/ prev_charging_state # Some(FALSE)
                          \/ prev_battery_percentage # Some(e.level)
       /\ vsys_wake' # vsys_wake =>
             \/ health'.tasks["Vsys"]
             \/ /\ io_failed'
                /\ event_channel' = event_channel
                /\ UNCHANGED <<vsys_pc, prev_charging_state, prev_battery_percentage>>
       /\ (~io_failed /\ io_failed') =>
             /\ ~health'.tasks["Vsys"]
             /\ event_channel' = event_channel
      ]_vars

C40_Witness ==
    /\ event_channel = <<BatteryLevelEvent(20), BatteryLevelEvent(60),
                         BatteryChargingEvent, BatteryLevelEvent(60)>>
    /\ io_failed
    /\ health.tasks["Vsys"]
    /\ vsys_pc = "sleep"

(***************************************************************************)
(* The tasks statement by statement.  main.rs spawns every task on one     *)
(* executor: one task is polled at a time and runs until an await of it is *)
(* pending.  A timer, the data-ready interrupt and an I2C transfer are     *)
(* always pending when they are started; a lock, a send and a receive are  *)
(* pending when the mutex is held, the channel full or the channel empty.  *)
(* Every call of a sensor or display driver is one transaction of its      *)
(* I2cDevice: lock I2C_BUS, transfer, drop the guard.                      *)
(***************************************************************************)
MaxLockEvents == 2
MaxToggles == 2

LockTasks == {"Sensor", "Display", "Orchestrator", "ModeSwitch", "Watchdog"}

\* the executor may poll task t
Polled(t) == running \in {"idle", t}

\* task t goes on at label, still being polled or back in the executor
Step(t, label, suspends) ==
    /\ lock_pc' = [lock_pc EXCEPT ![t] = label]
    /\ running' = IF suspends THEN "idle" ELSE t

\* what the statement-level tasks leave alone
LockFrame ==
    UNCHANGED <<now, wd_pc, wd_wake, sensor_reported_at, reported, io_failed, sensorVars,
                vsysVars, ms_wake, orch_pc, display_pc, ensVars, calibVars, iterVars,
                last_report, expected_call>>

RECURSIVE Repeat(_, _)
Repeat(ops, n) == IF n = 0 THEN << >> ELSE ops \o Repeat(ops, n - 1)

\* initialize_sensors, the first report and the warmup (sensor.rs 219-450, 517-539)
SensorInitOps ==
    <<[op |-> "Aht20::new", kind |-> "i2c", on_err |-> "return"],
      [op |-> "delay_100ms", kind |-> "timer", on_err |-> "none"],
      [op |-> "calibrate", kind |-> "i2c", on_err |-> "return"],
      [op |-> "delay_1000ms", kind |-> "timer", on_err |-> "none"],
      [op |-> "initialize", kind |-> "i2c", on_err |-> "return"],
      [op |-> "config_interrupt_pin", kind |-> "i2c", on_err |-> "return"],
      [op |-> "report", kind |-> "report", on_err |-> "none"],
      [op |-> "warmup", kind |-> "timer", on_err |-> "none"]>>

\* one pass of the loop of read_ens160 (sensor.rs 321-336)
SensorSampleOps ==
    <<[op |-> "wait_for_low", kind |-> "interrupt", on_err |-> "none"],
      [op |-> "get_status", kind |-> "i2c", on_err |-> "report"],
      [op |-> "get_eco2", kind |-> "i2c", on_err |-> "report"],
      [op |-> "get_etoh", kind |-> "i2c", on_err |-> "report"],
      [op |-> "get_airquality_index", kind |-> "i2c", on_err |-> "report"]>>

\* handle_sensor_iteration, the report and the sleep (sensor.rs 453-503, 541-567)
SensorLoopOps ==
    <<[op |-> "read", kind |-> "i2c", on_err |-> "continue"],
      [op |-> "set_temp_rh_comp", kind |-> "i2c", on_err |-> "report"],
      [op |-> "delay_100ms", kind |-> "timer", on_err |-> "none"]>>
    \o Repeat(SensorSampleOps, ENS160_MEDIAN_READINGS)
    \o <<[op |-> "send_event", kind |-> "send", on_err |-> "none"],
         [op |-> "report", kind |-> "report", on_err |-> "none"],
         [op |-> "sleep", kind |-> "timer", on_err |-> "none"]>>

SensorProgram == SensorInitOps \o SensorLoopOps

SensorLoopStart == Len(SensorInitOps) + 1
SensorInitReport == Len(SensorInitOps) - 1
SensorLoopReport == Len(SensorProgram) - 1

SensorOp == SensorProgram[sensor_run.op]

SensorNextOp == IF sensor_run.op = Len(SensorProgram) THEN SensorLoopStart ELSE sensor_run.op + 1

\* the SensorData events sent so far
SensorEventsSent == Len(SelectSeq(produced, LAMBDA e : e.type = "SensorData"))
TogglesSent == Len(SelectSeq(produced, LAMBDA e : e.type = "ToggleDisplayMode"))

(***************************************************************************)
(* sensor_task: its driver calls, waits, send and reports.                 *)
(***************************************************************************)
\* I2cDevice: the bus mutex is taken and the transfer started
SensorLockBus ==
    /\ Polled("Sensor")
    /\ lock_pc["Sensor"] = "op"
    /\ SensorOp.kind = "i2c"
    /\ i2c_bus_owner = "free"
    /\ i2c_bus_owner' = "Sensor"
    /\ Step("Sensor", "transfer", TRUE)
    /\ LockFrame
    /\ UNCHANGED <<health, unhealthy_since, hw_watchdog, channelVars, system_state, orchVars,
                   display_cmd, produced, sensor_run, display_run, system_state_owner,
                   system_health_owner, drawn>>

\* the transfer ends, well or not
SensorTransferDone ==
    /\ Polled("Sensor")
    /\ lock_pc["Sensor"] = "transfer"
    /\ \E ok \in BOOLEAN : sensor_run' = [sensor_run EXCEPT !.failed = ~ok]
    /\ Step("Sensor", "release", FALSE)
    /\ LockFrame
    /\ UNCHANGED <<health, unhealthy_since, hw_watchdog, channelVars, system_state, orchVars,
                   display_cmd, produced, display_run, i2c_bus_owner, system_state_owner,
                   system_health_owner, drawn>>

\* mutation: the driver call returns with the bus still locked
SensorReleaseBus_keeps_bus ==
    /\ Polled("Sensor")
    /\ lock_pc["Sensor"] = "release"
    /\ i2c_bus_owner' = i2c_bus_owner
    /\ sensor_run' =
          IF ~sensor_run.failed
          THEN [sensor_run EXCEPT !.op = SensorNextOp]
          ELSE [op |-> CASE SensorOp.on_err = "continue" -> SensorNextOp
                         [] SensorOp.on_err = "report" -> SensorLoopReport
                         [] SensorOp.on_err = "return" -> SensorInitReport,
                ok |-> FALSE,
                failed |-> FALSE]
    /\ Step("Sensor", "op", FALSE)
    /\ LockFrame
    /\ UNCHANGED <<health, unhealthy_since, hw_watchdog, channelVars, system_state, orchVars,
                   display_cmd, produced, display_run, system_state_owner,
                   system_health_owner, drawn>>

\* the guard of the bus is dropped and the driver call returns
SensorReleaseBus ==
    /\ Polled("Sensor")
    /\ lock_pc["Sensor"] = "release"
    /\ i2c_bus_owner' = "free"
    /\ sensor_run' =
          IF ~sensor_run.failed
          THEN [sensor_run EXCEPT !.op = SensorNextOp]
          ELSE [op |-> CASE SensorOp.on_err = "continue" -> SensorNextOp
                         [] SensorOp.on_err = "report" -> SensorLoopReport
                         [] SensorOp.on_err = "return" -> SensorInitReport,
                ok |-> FALSE,
                failed |-> FALSE]
    /\ Step("Sensor", "op", FALSE)
    /\ LockFrame
    /\ UNCHANGED <<health, unhealthy_since, hw_watchdog, channelVars, system_state, orchVars,
                   display_cmd, produced, display_run, system_state_owner,
                   system_health_owner, drawn>>

\* a timer or the wait for the data-ready line starts
SensorStartWait ==
    /\ Polled("Sensor")
    /\ lock_pc["Sensor"] = "op"
    /\ SensorOp.kind \in {"timer", "interrupt"}
    /\ Step("Sensor", "waiting", TRUE)
    /\ LockFrame
    /\ UNCHANGED <<health, unhealthy_since, hw_watchdog, channelVars, system_state, orchVars,
                   display_cmd, produced, sensor_run, display_run, i2c_bus_owner,
                   system_state_owner, system_health_owner, drawn>>

\* the timer expires or the line goes low; a new cycle starts a success
SensorWaitDone ==
    /\ Polled("Sensor")
    /\ lock_pc["Sensor"] = "waiting"
    /\ SensorOp.op = "sleep" => SensorEventsSent < MaxLockEvents
    /\ sensor_run' = [op |-> SensorNextOp,
                      ok |-> IF SensorOp.op = "sleep" THEN TRUE ELSE sensor_run.ok,
                      failed |-> FALSE]
    /\ Step("Sensor", "op", FALSE)
    /\ LockFrame
    /\ UNCHANGED <<health, unhealthy_since, hw_watchdog, channelVars, system_state, orchVars,
                   display_cmd, produced, display_run, i2c_bus_owner,
                   system_state_owner, system_health_owner, drawn>>

\* send_event of a complete reading; the k-th reading sent carries co2 = k
SensorSendEvent ==
    /\ Polled("Sensor")
    /\ lock_pc["Sensor"] = "op"
    /\ SensorOp.kind = "send"
    /\ IF sensor_run.ok
       THEN /\ EventChannelHasRoom
            /\ event_channel' = Append(event_channel, SensorDataEvent(SensorEventsSent + 1))
            /\ produced' = Append(produced, SensorDataEvent(SensorEventsSent + 1))
       ELSE UNCHANGED <<event_channel, produced>>
    /\ sensor_run' = [sensor_run EXCEPT !.op = SensorNextOp]
    /\ Step("Sensor", "op", FALSE)
    /\ LockFrame
    /\ UNCHANGED <<health, unhealthy_since, hw_watchdog, display_channel, system_state, orchVars,
                   display_cmd, display_run, i2c_bus_owner, system_state_owner,
                   system_health_owner, drawn>>

(***************************************************************************)
(* report_task_success and report_task_failure, statement by statement.    *)
(***************************************************************************)
\* SYSTEM_HEALTH.lock().await returns
LockHealth(t, at) ==
    /\ Polled(t)
    /\ lock_pc[t] = at
    /\ system_health_owner = "free"
    /\ system_health_owner' = t
    /\ Step(t, "set_health", FALSE)
    /\ LockFrame
    /\ UNCHANGED <<health, unhealthy_since, hw_watchdog, channelVars, system_state, orchVars,
                   display_cmd, produced, sensor_run, display_run, i2c_bus_owner,
                   system_state_owner, drawn>>

\* the flag of the task is set
SetHealth(t, success) ==
    /\ Polled(t)
    /\ lock_pc[t] = "set_health"
    /\ IF success THEN report_task_success(t) ELSE report_task_failure(t)
    /\ Step(t, "unlock_health", FALSE)
    /\ LockFrame
    /\ UNCHANGED <<hw_watchdog, channelVars, system_state, orchVars,
                   display_cmd, produced, sensor_run, display_run, i2c_bus_owner,
                   system_state_owner, system_health_owner, drawn>>

SensorLockHealth ==
    /\ SensorOp.kind = "report"
    /\ LockHealth("Sensor", "op")

SensorSetHealth == SetHealth("Sensor", sensor_run.ok)

\* the guard is dropped; after a failed initialisation sensor_task returns
SensorUnlockHealth ==
    /\ Polled("Sensor")
    /\ lock_pc["Sensor"] = "unlock_health"
    /\ system_health_owner' = "free"
    /\ IF sensor_run.op = SensorInitReport /\ ~sensor_run.ok
       THEN /\ Step("Sensor", "returned", TRUE)
            /\ sensor_run' = sensor_run
       ELSE /\ Step("Sensor", "op", FALSE)
            /\ sensor_run' = [sensor_run EXCEPT !.op = SensorNextOp]
    /\ LockFrame
    /\ UNCHANGED <<health, unhealthy_since, hw_watchdog, channelVars, system_state, orchVars,
                   display_cmd, produced, display_run, i2c_bus_owner,
                   system_state_owner, drawn>>

(***************************************************************************)
(* display_task, statement by statement.                                   *)
(***************************************************************************)
\* the SYSTEM_STATE sections of one command; the startup screen has no command
DisplaySections(command) ==
    IF command = None THEN <<"battery">>
    ELSE CASE Unwrap(command).type = "SensorData" -> <<"mode_and_battery">>
           [] Unwrap(command).type = "ToggleMode" -> <<"clone_last", "mode", "battery">>
           [] OTHER -> <<"battery">>

\* the section after section i: the mode is drawn only if sensor data was cloned
NextDisplaySection(command, i, sensor_data) ==
    IF /\ i + 1 <= Len(DisplaySections(command))
       /\ DisplaySections(command)[i + 1] = "mode"
       /\ sensor_data = None
    THEN i + 2
    ELSE i + 1

\* I2cDevice: the bus mutex is taken and the transfer started
DisplayLockBus ==
    /\ Polled("Display")
    /\ lock_pc["Display"] = "op"
    /\ i2c_bus_owner = "free"
    /\ i2c_bus_owner' = "Display"
    /\ Step("Display", "transfer", TRUE)
    /\ LockFrame
    /\ UNCHANGED <<health, unhealthy_since, hw_watchdog, channelVars, system_state, orchVars,
                   display_cmd, produced, sensor_run, display_run, system_state_owner,
                   system_health_owner, drawn>>

DisplayTransferDone ==
    /\ Polled("Display")
    /\ lock_pc["Display"] = "transfer"
    /\ \E ok \in BOOLEAN : display_run' = [display_run EXCEPT !.failed = ~ok]
    /\ Step("Display", "release", FALSE)
    /\ LockFrame
    /\ UNCHANGED <<health, unhealthy_since, hw_watchdog, channelVars, system_state, orchVars,
                   display_cmd, produced, sensor_run, i2c_bus_owner, system_state_owner,
                   system_health_owner, drawn>>

\* the guard of the bus is dropped; a failure during initialisation forces
\* the reset and ends the task, a failed flush later is ignored
DisplayReleaseBus ==
    /\ Polled("Display")
    /\ lock_pc["Display"] = "release"
    /\ i2c_bus_owner' = "free"
    /\ IF display_run.failed /\ display_run.op \in {"init", "set_brightness", "flush_clear"}
       THEN /\ trigger_watchdog_reset
            /\ Step("Display", "returned", TRUE)
            /\ display_run' = display_run
       ELSE /\ hw_watchdog' = hw_watchdog
            /\ CASE display_run.op = "init" ->
                      /\ Step("Display", "op", FALSE)
                      /\ display_run' = [display_run EXCEPT !.op = "set_brightness", !.failed = FALSE]
                 [] display_run.op = "set_brightness" ->
                      /\ Step("Display", "op", FALSE)
                      /\ display_run' = [display_run EXCEPT !.op = "flush_clear", !.failed = FALSE]
                 [] display_run.op = "flush_clear" ->
                      /\ Step("Display", "lock_state", FALSE)
                      /\ display_run' = [display_run EXCEPT !.section = 1, !.failed = FALSE]
                 [] OTHER ->
                      /\ Step("Display", "receive", FALSE)
                      /\ display_run' = [display_run EXCEPT !.failed = FALSE]
    /\ LockFrame
    /\ UNCHANGED <<health, unhealthy_since, channelVars, system_state, orchVars,
                   display_cmd, produced, sensor_run, system_state_owner,
                   system_health_owner, drawn>>

\* wait_for_display_command returns
DisplayReceiveCommand ==
    /\ Polled("Display")
    /\ lock_pc["Display"] = "receive"
    /\ display_channel # << >>
    /\ display_cmd' = Some(Head(display_channel))
    /\ display_channel' = Tail(display_channel)
    /\ display_run' = [display_run EXCEPT !.section = 1, !.sensor_data = None]
    /\ drawn' = [command |-> Some(Head(display_channel)), reads |-> << >>]
    /\ Step("Display", "lock_state", FALSE)
    /\ LockFrame
    /\ UNCHANGED <<health, unhealthy_since, hw_watchdog, event_channel, system_state, orchVars,
                   produced, sensor_run, i2c_bus_owner, system_state_owner,
                   system_health_owner>>

\* SYSTEM_STATE.lock().await returns
DisplayLockState ==
    /\ Polled("Display")
    /\ lock_pc["Display"] = "lock_state"
    /\ system_state_owner = "free"
    /\ system_state_owner' = "Display"
    /\ Step("Display", "in_state", FALSE)
    /\ LockFrame
    /\ UNCHANGED <<health, unhealthy_since, hw_watchdog, channelVars, system_state, orchVars,
                   display_cmd, produced, sensor_run, display_run, i2c_bus_owner,
                   system_health_owner, drawn>>

\* the section reads the state it draws from
DisplayInState ==
    /\ Polled("Display")
    /\ lock_pc["Display"] = "in_state"
    /\ LET section == DisplaySections(display_cmd)[display_run.section]
       IN  /\ drawn' = [drawn EXCEPT !.reads = Append(@, [section |-> section,
                                                         state |-> system_state])]
           /\ display_run' =
                 IF section = "clone_last"
                 THEN [display_run EXCEPT !.sensor_data = system_state.last_sensor_data]
                 ELSE display_run
    /\ Step("Display", "unlock_state", FALSE)
    /\ LockFrame
    /\ UNCHANGED <<health, unhealthy_since, hw_watchdog, channelVars, system_state, orchVars,
                   display_cmd, produced, sensor_run, i2c_bus_owner, system_state_owner,
                   system_health_owner>>

\* the guard is dropped at the end of the block; after the last section
\* the frame is flushed
DisplayUnlockState ==
    /\ Polled("Display")
    /\ lock_pc["Display"] = "unlock_state"
    /\ system_state_owner' = "free"
    /\ LET next == NextDisplaySection(display_cmd, display_run.section, display_run.sensor_data)
       IN  IF next <= Len(DisplaySections(display_cmd))
           THEN /\ Step("Display", "lock_state", FALSE)
                /\ display_run' = [display_run EXCEPT !.section = next]
           ELSE /\ Step("Display", "op", FALSE)
                /\ display_run' =
                      [display_run EXCEPT !.op = IF display_cmd = None
                                                 THEN "flush_startup"
                                                 ELSE "flush"]
    /\ LockFrame
    /\ UNCHANGED <<health, unhealthy_since, hw_watchdog, channelVars, system_state, orchVars,
                   display_cmd, produced, sensor_run, i2c_bus_owner,
                   system_health_owner, drawn>>

(***************************************************************************)
(* orchestrate_task, statement by statement.                               *)
(***************************************************************************)
\* receive_event returns
OrchReceiveEvent ==
    /\ Polled("Orchestrator")
    /\ lock_pc["Orchestrator"] = "receive"
    /\ event_channel # << >>
    /\ orch_event' = Some(Head(event_channel))
    /\ event_channel' = Tail(event_channel)
    /\ Step("Orchestrator", "lock_state", FALSE)
    /\ LockFrame
    /\ UNCHANGED <<health, unhealthy_since, hw_watchdog, display_channel, system_state, orch_cmd,
                   display_cmd, produced, sensor_run, display_run, i2c_bus_owner,
                   system_state_owner, system_health_owner, drawn>>

\* SYSTEM_STATE.lock().await returns
OrchLockState ==
    /\ Polled("Orchestrator")
    /\ lock_pc["Orchestrator"] = "lock_state"
    /\ system_state_owner = "free"
    /\ system_state_owner' = "Orchestrator"
    /\ Step("Orchestrator",
            IF Unwrap(orch_event).type = "SensorData" THEN "add_co2" ELSE "update", FALSE)
    /\ LockFrame
    /\ UNCHANGED <<health, unhealthy_since, hw_watchdog, channelVars, system_state, orchVars,
                   display_cmd, produced, sensor_run, display_run, i2c_bus_owner,
                   system_health_owner, drawn>>

\* mutation: the guard of SYSTEM_STATE is dropped after the history append
OrchAddCo2_unlocks ==
    /\ Polled("Orchestrator")
    /\ lock_pc["Orchestrator"] = "add_co2"
    /\ system_state' = add_co2_measurement(system_state, Unwrap(orch_event).co2)
    /\ Step("Orchestrator", "set_last", FALSE)
    /\ LockFrame
    /\ UNCHANGED <<health, unhealthy_since, hw_watchdog, channelVars, orchVars,
                   display_cmd, produced, sensor_run, display_run, i2c_bus_owner,
                   system_health_owner, drawn>>
    /\ system_state_owner' = "free"

\* state.add_co2_measurement(co2)
OrchAddCo2 ==
    /\ Polled("Orchestrator")
    /\ lock_pc["Orchestrator"] = "add_co2"
    /\ system_state' = add_co2_measurement(system_state, Unwrap(orch_event).co2)
    /\ Step("Orchestrator", "set_last", FALSE)
    /\ LockFrame
    /\ UNCHANGED <<health, unhealthy_since, hw_watchdog, channelVars, orchVars,
                   display_cmd, produced, sensor_run, display_run, i2c_bus_owner,
                   system_state_owner, system_health_owner, drawn>>

\* state.set_last_sensor_data(sensor_data)
OrchSetLast ==
    /\ Polled("Orchestrator")
    /\ lock_pc["Orchestrator"] = "set_last"
    /\ system_state' = set_last_sensor_data(system_state, [co2 |-> Unwrap(orch_event).co2])
    /\ orch_cmd' = Some(SensorDataCommand(Unwrap(orch_event).co2))
    /\ Step("Orchestrator", "unlock_state", FALSE)
    /\ LockFrame
    /\ UNCHANGED <<health, unhealthy_since, hw_watchdog, channelVars, orch_pc, orch_event,
                   display_cmd, produced, sensor_run, display_run, i2c_bus_owner,
                   system_state_owner, system_health_owner, drawn>>

\* the critical section of a battery or toggle event
OrchUpdate ==
    /\ Polled("Orchestrator")
    /\ lock_pc["Orchestrator"] = "update"
    /\ system_state' = process_event_state(system_state, Unwrap(orch_event))
    /\ orch_cmd' = process_event_command(system_state, Unwrap(orch_event))
    /\ Step("Orchestrator", "unlock_state", FALSE)
    /\ LockFrame
    /\ UNCHANGED <<health, unhealthy_since, hw_watchdog, channelVars, orch_pc, orch_event,
                   display_cmd, produced, sensor_run, display_run, i2c_bus_owner,
                   system_state_owner, system_health_owner, drawn>>

\* mutation: the guard of SYSTEM_STATE lives until process_event returns
OrchUnlockState_keeps_lock ==
    /\ Polled("Orchestrator")
    /\ lock_pc["Orchestrator"] = "unlock_state"
    /\ system_state_owner' = system_state_owner
    /\ Step("Orchestrator", IF IsSome(orch_cmd) THEN "send" ELSE "lock_health", FALSE)
    /\ LockFrame
    /\ UNCHANGED <<health, unhealthy_since, hw_watchdog, channelVars, system_state, orchVars,
                   display_cmd, produced, sensor_run, display_run, i2c_bus_owner,
                   system_health_owner, drawn>>

\* the guard is dropped at the end of the block
OrchUnlockState ==
    /\ Polled("Orchestrator")
    /\ lock_pc["Orchestrator"] = "unlock_state"
    /\ system_state_owner' = "free"
    /\ Step("Orchestrator", IF IsSome(orch_cmd) THEN "send" ELSE "lock_health", FALSE)
    /\ LockFrame
    /\ UNCHANGED <<health, unhealthy_since, hw_watchdog, channelVars, system_state, orchVars,
                   display_cmd, produced, sensor_run, display_run, i2c_bus_owner,
                   system_health_owner, drawn>>

\* send_display_command returns
OrchSendCommand ==
    /\ Polled("Orchestrator")
    /\ lock_pc["Orchestrator"] = "send"
    /\ DisplayChannelHasRoom
    /\ display_channel' = Append(display_channel, Unwrap(orch_cmd))
    /\ Step("Orchestrator", "lock_health", FALSE)
    /\ LockFrame
    /\ UNCHANGED <<health, unhealthy_since, hw_watchdog, event_channel, system_state, orchVars,
                   display_cmd, produced, sensor_run, display_run, i2c_bus_owner,
                   system_state_owner, system_health_owner, drawn>>

OrchLockHealth == LockHealth("Orchestrator", "lock_health")

OrchSetHealth == SetHealth("Orchestrator", TRUE)

\* report_task_success returns and process_event with it
OrchUnlockHealth ==
    /\ Polled("Orchestrator")
    /\ lock_pc["Orchestrator"] = "unlock_health"
    /\ system_health_owner' = "free"
    /\ orch_event' = None
    /\ orch_cmd' = None
    /\ Step("Orchestrator", "receive", FALSE)
    /\ LockFrame
    /\ UNCHANGED <<health, unhealthy_since, hw_watchdog, channelVars, system_state, orch_pc,
                   display_cmd, produced, sensor_run, display_run, i2c_bus_owner,
                   system_state_owner, drawn>>

(***************************************************************************)
(* mode_switch_task and watchdog_task, statement by statement.             *)
(***************************************************************************)
ModeSwitchTimer ==
    /\ Polled("ModeSwitch")
    /\ lock_pc["ModeSwitch"] = "timer"
    /\ TogglesSent < MaxToggles
    /\ Step("ModeSwitch", "send", FALSE)
    /\ LockFrame
    /\ UNCHANGED <<health, unhealthy_since, hw_watchdog, channelVars, system_state, orchVars,
                   display_cmd, produced, sensor_run, display_run, i2c_bus_owner,
                   system_state_owner, system_health_owner, drawn>>

ModeSwitchSendEvent ==
    /\ Polled("ModeSwitch")
    /\ lock_pc["ModeSwitch"] = "send"
    /\ EventChannelHasRoom
    /\ event_channel' = Append(event_channel, ToggleDisplayModeEvent)
    /\ produced' = Append(produced, ToggleDisplayModeEvent)
    /\ Step("ModeSwitch", "timer", TRUE)
    /\ LockFrame
    /\ UNCHANGED <<health, unhealthy_since, hw_watchdog, display_channel, system_state, orchVars,
                   display_cmd, sensor_run, display_run, i2c_bus_owner,
                   system_state_owner, system_health_owner, drawn>>

WatchdogLockHealth ==
    /\ Polled("Watchdog")
    /\ lock_pc["Watchdog"] = "lock_health"
    /\ system_health_owner = "free"
    /\ system_health_owner' = "Watchdog"
    /\ Step("Watchdog", "check", FALSE)
    /\ LockFrame
    /\ UNCHANGED <<health, unhealthy_since, hw_watchdog, channelVars, system_state, orchVars,
                   display_cmd, produced, sensor_run, display_run, i2c_bus_owner,
                   system_state_owner, drawn>>

\* the health check inside the block
WatchdogCheck ==
    /\ Polled("Watchdog")
    /\ lock_pc["Watchdog"] = "check"
    /\ health' = health_check(health, now)
    /\ unhealthy_since' = StoppedHealthy(health, health')
    /\ Step("Watchdog",
            IF should_trigger_reset(health', now) THEN "unlock_reset" ELSE "unlock_health",
            FALSE)
    /\ LockFrame
    /\ UNCHANGED <<hw_watchdog, channelVars, system_state, orchVars,
                   display_cmd, produced, sensor_run, display_run, i2c_bus_owner,
                   system_state_owner, system_health_owner, drawn>>

\* the guard is dropped at the end of the block; then the hardware
\* watchdog is started, or the interval timer
WatchdogUnlockHealth ==
    /\ Polled("Watchdog")
    /\ lock_pc["Watchdog"] \in {"unlock_reset", "unlock_health"}
    /\ system_health_owner' = "free"
    /\ IF lock_pc["Watchdog"] = "unlock_reset"
       THEN /\ hw_watchdog' = "started"
            /\ Step("Watchdog", "reset_wait", TRUE)
       ELSE /\ hw_watchdog' = hw_watchdog
            /\ Step("Watchdog", "timer", TRUE)
    /\ LockFrame
    /\ UNCHANGED <<health, unhealthy_since, channelVars, system_state, orchVars,
                   display_cmd, produced, sensor_run, display_run, i2c_bus_owner,
                   system_state_owner, drawn>>

WatchdogTimer ==
    /\ Polled("Watchdog")
    /\ lock_pc["Watchdog"] = "timer"
    /\ Step("Watchdog", "lock_health", FALSE)
    /\ LockFrame
    /\ UNCHANGED <<health, unhealthy_since, hw_watchdog, channelVars, system_state, orchVars,
                   display_cmd, produced, sensor_run, display_run, i2c_bus_owner,
                   system_state_owner, system_health_owner, drawn>>

(***************************************************************************)
(* The executor.                                                           *)
(***************************************************************************)
\* the await task t is at is pending
Pending(t) ==
    CASE t = "Sensor" ->
            /\ lock_pc[t] = "op"
            /\ \/ SensorOp.kind = "i2c" /\ i2c_bus_owner # "free"
               \/ SensorOp.kind = "send" /\ sensor_run.ok /\ ~EventChannelHasRoom
               \/ SensorOp.kind = "report" /\ system_health_owner # "free"
      [] t = "Display" ->
            \/ lock_pc[t] = "op" /\ i2c_bus_owner # "free"
            \/ lock_pc[t] = "receive" /\ display_channel = << >>
            \/ lock_pc[t] = "lock_state" /\ system_state_owner # "free"
      [] t = "Orchestrator" ->
            \/ lock_pc[t] = "receive" /\ event_channel = << >>
            \/ lock_pc[t] = "lock_state" /\ system_state_owner # "free"
            \/ lock_pc[t] = "send" /\ ~DisplayChannelHasRoom
            \/ lock_pc[t] = "lock_health" /\ system_health_owner # "free"
      [] t = "ModeSwitch" -> lock_pc[t] = "send" /\ ~EventChannelHasRoom
      [] t = "Watchdog" -> lock_pc[t] = "lock_health" /\ system_health_owner # "free"

\* the task polled returns Poll::Pending
Yield ==
    /\ running # "idle"
    /\ Pending(running)
    /\ running' = "idle"
    /\ LockFrame
    /\ UNCHANGED <<health, unhealthy_since, hw_watchdog, channelVars, system_state, orchVars,
                   display_cmd, produced, lock_pc, sensor_run, display_run, i2c_bus_owner,
                   system_state_owner, system_health_owner, drawn>>

NextLock ==
    \/ SensorLockBus
    \/ SensorTransferDone
    \/ SensorReleaseBus
    \/ SensorStartWait
    \/ SensorWaitDone
    \/ SensorSendEvent
    \/ SensorLockHealth
    \/ SensorSetHealth
    \/ SensorUnlockHealth
    \/ DisplayLockBus
    \/ DisplayTransferDone
    \/ DisplayReleaseBus
    \/ DisplayReceiveCommand
    \/ DisplayLockState
    \/ DisplayInState
    \/ DisplayUnlockState
    \/ OrchReceiveEvent
    \/ OrchLockState
    \/ OrchAddCo2
    \/ OrchSetLast
    \/ OrchUpdate
    \/ OrchUnlockState
    \/ OrchSendCommand
    \/ OrchLockHealth
    \/ OrchSetHealth
    \/ OrchUnlockHealth
    \/ ModeSwitchTimer
    \/ ModeSwitchSendEvent
    \/ WatchdogLockHealth
    \/ WatchdogCheck
    \/ WatchdogUnlockHealth
    \/ WatchdogTimer
    \/ Yield

SpecLock == Init /\ [][NextLock]_vars

\* task t holds the bus: its transfer is in progress or has just ended
InTransaction(t) == lock_pc[t] \in {"transfer", "release"}

\* C31: at most one task has an I2C transaction in progress, and that task
\* holds the bus mutex; the sensor task does not hold it while it waits for
\* the data-ready interrupt, a delay, the warmup or the sleep between
\* cycles, so a transaction the display task is about to start during such
\* a wait finds the bus free.
C31_BusExclusive ==
    /\ Cardinality({t \in LockTasks : InTransaction(t)}) <= 1
    /\ \A t \in LockTasks : InTransaction(t) <=> i2c_bus_owner = t
    /\ lock_pc["Sensor"] \in {"waiting", "returned"} =>
          /\ i2c_bus_owner # "Sensor"
          /\ lock_pc["Display"] = "op" => i2c_bus_owner = "free"

C31_Witness ==
    /\ lock_pc["Sensor"] = "waiting"
    /\ SensorOp.op = "wait_for_low"
    /\ lock_pc["Display"] = "transfer"
    /\ display_run.op = "flush"
    /\ i2c_bus_owner = "Display"

\* the orchestrator is suspended in send_display_command on a full channel
OrchBlockedOnFullChannel ==
    /\ running # "Orchestrator"
    /\ lock_pc["Orchestrator"] = "send"
    /\ ~DisplayChannelHasRoom

\* C32: a task that is suspended (on a channel, a timer, the interrupt or
\* an I2C transfer) holds neither SYSTEM_STATE nor SYSTEM_HEALTH: the
\* orchestrator has released SYSTEM_STATE when it sends the display command,
\* the display task when it flushes, the watchdog SYSTEM_HEALTH when it
\* sleeps; a task about to take SYSTEM_STATE finds it free, and while the
\* orchestrator is blocked on a full display channel the display task is
\* either gone or able to go on, at most waiting for a bus transfer of
\* the sensor task to end.
C32_NoLockAcrossSuspension ==
    /\ \A t \in LockTasks :
          running # t => (system_state_owner # t /\ system_health_owner # t)
    /\ lock_pc["Orchestrator"] = "send" => system_state_owner # "Orchestrator"
    /\ lock_pc["Display"] \in {"op", "transfer", "release", "receive"} =>
          system_state_owner # "Display"
    /\ lock_pc["Watchdog"] \in {"timer", "reset_wait"} => system_health_owner # "Watchdog"
    /\ \A t \in LockTasks :
          (running = t /\ lock_pc[t] = "lock_state") => system_state_owner = "free"
    /\ OrchBlockedOnFullChannel =>
          \/ lock_pc["Display"] = "returned"
          \/ ~Pending("Display")
          \/ /\ lock_pc["Display"] = "op"
             /\ i2c_bus_owner = "Sensor"
             /\ InTransaction("Sensor")

C32_Witness ==
    /\ OrchBlockedOnFullChannel
    /\ lock_pc["Display"] = "in_state"
    /\ system_state_owner = "Display"
    /\ lock_pc["Watchdog"] = "timer"

\* the last element of a non-empty sequence
Newest(history) == history[Len(history)]

\* a SystemState in which the CO2 history and the last reading agree
HistoryMatchesLast(st) ==
    IF IsSome(st.last_sensor_data)
    THEN /\ st.co2_history # << >>
         /\ Newest(st.co2_history) = Unwrap(st.last_sensor_data).co2
    ELSE st.co2_history = << >>

\* C38: whenever SYSTEM_STATE is free and a last reading is present, the
\* newest entry of co2_history is the CO2 value of the last reading; every
\* state a section of the display task read has both updates of an event
\* or neither; the state a SensorData command is drawn from contains the
\* reading of the command (readings are numbered) and none older as its
\* last, and a ToggleMode command is drawn from a state with a reading.
C38_HistoryAndLastTogether ==
    /\ system_state_owner = "free" => HistoryMatchesLast(system_state)
    /\ \A k \in DOMAIN drawn.reads :
          LET st == drawn.reads[k].state
          IN  /\ HistoryMatchesLast(st)
              /\ IsSome(drawn.command) =>
                    /\ Unwrap(drawn.command).type = "SensorData" =>
                          /\ IsSome(st.last_sensor_data)
                          /\ Unwrap(st.last_sensor_data).co2 >= Unwrap(drawn.command).co2
                          /\ \E j \in DOMAIN st.co2_history :
                                st.co2_history[j] = Unwrap(drawn.command).co2
                    /\ Unwrap(drawn.command).type = "ToggleMode" =>
                          IsSome(st.last_sensor_data)

C38_Witness ==
    /\ system_state_owner = "free"
    /\ system_state.co2_history = <<1, 2>>
    /\ drawn.command = Some(SensorDataCommand(1))
    /\ Len(drawn.reads) = 1
    /\ drawn.reads[1].state.last_sensor_data = Some([co2 |-> 2])
    /\ drawn.reads[1].state.display_mode = "Co2History"

====
